---- MODULE Spec2Model ----
\* Tensor implementations of oneflow/core/framework/tensor_impl.cpp:
\* construction of EagerConsistentTensorImpl (placement translation between
\* logical and physical shapes), and the EagerMirroredTensorImpl life cycle
\* (blob / storage binding, shape materialization against the instruction
\* execution core, deferred release); the max-pooling kernels of
\* oneflow/user/kernels/pooling_kernel_util.h and the scalar scatter kernel of
\* oneflow/user/kernels/dim_scatter_scalar.h.
EXTENDS Integers, Sequences, FiniteSets, TLC

\* ---------------------------------------------------------------- bounds
\* Largest extent of one tensor axis.
MaxExt == 3
\* Largest number of tensor axes.
MaxAxes == 2
\* Largest number of ranks of a ParallelDesc.
MaxRanks == 3

\* Largest number of calls in one run that create an impl, bind a blob or issue
\* an instruction (destroying an impl and reading a known shape are not counted).
MaxCalls == 4
\* Largest number of distinct gradient tensors.
MaxGrads == 2
\* Largest extent of one axis of a kernel's input or output tensor.
MaxDim == 2
\* Largest number of elements of a kernel's input tensor.
MaxElems == 4

VARIABLES
  ctx,      \* GlobalProcessCtx: machine id and device id of the current process
  cres,     \* the last EagerConsistentTensorImpl::New call: its inputs and result
  impls,    \* the EagerMirroredTensorImpl objects
  blobs,    \* the EagerBlobObjects, in order of creation
  storages, \* the TensorStorages, in order of creation
  shapeVal, \* contents of each Shape object
  instrs,   \* the instructions handed to the execution core, in enqueue order
  pc,       \* the caller: "idle" between calls, "spin" inside shape()'s wait
  cur,      \* the impl whose shape() the caller is inside
  curInstr, \* the access instruction that shape() call enqueued
  flag,     \* shape()'s local std::atomic<bool> synced
  lock,     \* the foreign lock: "caller" holds it, or it is "free"
  last,     \* the last call the caller completed, and what it returned
  ncalls,   \* the number of calls made so far
  autograd_meta, \* TensorImpl::autograd_meta_ of the impl the grad calls are made on
  tcall,    \* the last TensorImpl-level call: its inputs and result
  kcall     \* the last kernel launch: its inputs and what it left in its buffers

mvars == <<impls, blobs, storages, shapeVal, instrs, pc, cur, curInstr, flag, lock, last, ncalls>>
tvars == <<autograd_meta, tcall>>
\* What the mirrored life cycle leaves alone.
cvars == <<ctx, cres, autograd_meta, tcall, kcall>>
vars == <<ctx, cres, impls, blobs, storages, shapeVal, instrs, pc, cur, curInstr, flag, lock, last,
          ncalls, autograd_meta, tcall, kcall>>
\* The caller's position.
caller == <<pc, cur, curInstr, flag, lock>>

\* ------------------------------------------------------------ value types
DTypes == {"kFloat", "kInt32"}
DeviceTags == {"cpu", "cuda"}

\* Symbol<Device>() : the null device symbol.
NullDevice == [tag |-> "null", id |-> -1]

\* Device::ThreadLocalGetOrNew(device_tag, device_id)
Device(tag, id) == [tag |-> tag, id |-> id]

\* Shape: ordered sequence of non-negative extents.
Shapes == UNION {[1..k -> 0..MaxExt] : k \in 1..MaxAxes}

\* One SbpParallel entry of a ParallelDistribution.
Split(axis) == [kind |-> "S", axis |-> axis]
Broadcast == [kind |-> "B", axis |-> -1]
PartialSum == [kind |-> "P", axis |-> -1]

\* ParallelDistributions valid for a tensor of naxes axes (split axes are 0-based).
ParallelDistributions(naxes) ==
  {<<Split(a)>> : a \in 0..(naxes - 1)} \cup {<<Broadcast>>, <<PartialSum>>}

\* ParallelDesc: a device tag and the ordered (machine_id, device_id) pairs of
\* its ranks; the position of a pair is its parallel id.
ParallelDescs ==
  {[tag |-> t, members |-> [k \in 1..n |-> <<m0 + k - 1, 0>>]] :
      t \in DeviceTags, n \in 1..MaxRanks, m0 \in 0..1}
  \cup
  {[tag |-> t, members |-> [k \in 1..n |-> <<0, k - 1>>]] :
      t \in DeviceTags, n \in 1..MaxRanks}

ParallelNum(pd) == Len(pd.members)

\* The process contexts a run may start in.
ProcessCtxs == {[machine |-> 0, device |-> 0], [machine |-> 0, device |-> 1]}

\* ParallelDesc::GetDevice4CurrentProcessCtx(&parallel_id): the device and the
\* parallel id of the current process, the null device when it takes no part.
GetDevice4CurrentProcessCtx(pd, c) ==
  IF \E k \in 1..ParallelNum(pd) : pd.members[k] = <<c.machine, c.device>>
  THEN LET k == CHOOSE k \in 1..ParallelNum(pd) : pd.members[k] = <<c.machine, c.device>>
       IN  [device |-> Device(pd.tag, c.device), parallel_id |-> k - 1]
  ELSE [device |-> NullDevice, parallel_id |-> -1]

\* ------------------------------------------------- placement translation
\* A partition that gives every part the rounded-down share and drops the rest.
BalancedPartSizeTruncating(total, n, parallel_id) == total \div n

\* Size of part parallel_id when total is split as evenly as possible over n
\* parts, the first (total % n) parts taking the extra unit.
BalancedPartSize(total, n, parallel_id) ==
  (total \div n) + (IF parallel_id < (total % n) THEN 1 ELSE 0)

RECURSIVE PhysicalFrom(_, _, _, _, _)
PhysicalFrom(shape, sbp, n, parallel_id, i) ==
  IF i > Len(sbp) THEN shape
  ELSE LET e == sbp[i]
           s == IF e.kind = "S"
                THEN [shape EXCEPT ![e.axis + 1] =
                         BalancedPartSize(shape[e.axis + 1], n, parallel_id)]
                ELSE shape
       IN  PhysicalFrom(s, sbp, n, parallel_id, i + 1)

\* GetPhysicalShape(logical_shape, parallel_distribution, parallel_desc, parallel_id)
GetPhysicalShape(logical_shape, sbp, pd, parallel_id) ==
  PhysicalFrom(logical_shape, sbp, ParallelNum(pd), parallel_id, 1)

RECURSIVE LogicalFrom(_, _, _, _)
LogicalFrom(shape, sbp, n, i) ==
  IF i > Len(sbp) THEN shape
  ELSE LET e == sbp[i]
           s == IF e.kind = "S"
                THEN [shape EXCEPT ![e.axis + 1] = shape[e.axis + 1] * n]
                ELSE shape
       IN  LogicalFrom(s, sbp, n, i + 1)

\* A GetLogicalShape that multiplies the first axis by the number of ranks
\* whatever the kind of the entry.
GetLogicalShapeScalesAlways(physical_shape, sbp, pd) ==
  [physical_shape EXCEPT ![1] = @ * ParallelNum(pd)]

\* GetLogicalShape(physical_shape, parallel_distribution, parallel_desc): it is
\* given one rank's physical shape and no rank index; every rank's contribution
\* to a split axis is taken to be that shape's extent.
GetLogicalShape(physical_shape, sbp, pd) ==
  LogicalFrom(physical_shape, sbp, ParallelNum(pd), 1)

\* ------------------------------------------- consistent tensor construction
\* A MirroredTensor as EagerConsistentTensorImpl sees it; present = FALSE is the
\* empty std::shared_ptr<MirroredTensor>().
NoTensor ==
  [present |-> FALSE, is_lazy |-> FALSE, device |-> NullDevice, shape |-> <<>>,
   dtype |-> "kInvalidDataType", requires_grad |-> FALSE, is_leaf |-> FALSE,
   has_blob |-> FALSE]

MirroredTensor(is_lazy, device, shape, dtype, requires_grad, is_leaf, has_blob) ==
  [present |-> TRUE, is_lazy |-> is_lazy, device |-> device, shape |-> shape,
   dtype |-> dtype, requires_grad |-> requires_grad, is_leaf |-> is_leaf,
   has_blob |-> has_blob]

\* ConsistentTensorMeta(shape, dtype, parallel_distribution, parallel_desc)
ConsistentTensorMeta(shape, dtype, sbp, pd) ==
  [shape |-> shape, dtype |-> dtype, parallel_distribution |-> sbp, parallel_desc |-> pd]

NoMeta == ConsistentTensorMeta(<<>>, "kInvalidDataType", <<>>, [tag |-> "null", members |-> <<>>])

NoImpl == [meta |-> NoMeta, requires_grad |-> FALSE, is_leaf |-> FALSE, cur_rank_phy_tensor |-> NoTensor]

\* Outcome of a call: status "ok" (an impl is returned), "error" (a failed Maybe
\* is returned) or "crash" (the process dies); ub records an invalid access.
Outcome(status, ub, impl) == [status |-> status, ub |-> ub, impl |-> impl]

\* EagerConsistentTensorImpl::EagerConsistentTensorImpl(meta, requires_grad,
\* is_leaf, cur_rank_phy_tensor): the base class is initialised from
\* cur_rank_phy_tensor->requires_grad() and ->is_leaf(), the two flag parameters
\* are unused.  With an empty pointer these are calls through a null pointer:
\* undefined behaviour, modelled as every outcome a build can produce (the
\* process dies, or the flags hold arbitrary values).
ConsistentImplCtor(meta, requires_grad, is_leaf, phy) ==
  IF phy.present
  THEN {Outcome("ok", FALSE,
                [meta |-> meta, requires_grad |-> phy.requires_grad,
                 is_leaf |-> phy.is_leaf, cur_rank_phy_tensor |-> phy])}
  ELSE {Outcome("crash", TRUE, NoImpl)}
       \cup {Outcome("ok", TRUE,
                     [meta |-> meta, requires_grad |-> g, is_leaf |-> l,
                      cur_rank_phy_tensor |-> NoTensor]) : g \in BOOLEAN, l \in BOOLEAN}

\* New from a physical tensor with the device comparison left out.
NewFromPhyTensorNoDeviceCheck(c, t, sbp, pd) ==
  IF t.is_lazy THEN {Outcome("error", FALSE, NoImpl)}
  ELSE LET shape == GetLogicalShape(t.shape, sbp, pd)
           meta == ConsistentTensorMeta(shape, t.dtype, sbp, pd)
       IN  ConsistentImplCtor(meta, t.requires_grad, t.is_leaf, t)

\* EagerConsistentTensorImpl::New(cur_rank_phy_tensor, parallel_distribution, parallel_desc)
NewFromPhyTensorOutcomes(c, t, sbp, pd) ==
  IF t.is_lazy THEN {Outcome("error", FALSE, NoImpl)}
  ELSE IF Device(pd.tag, c.device) # t.device THEN {Outcome("error", FALSE, NoImpl)}
  ELSE LET shape == GetLogicalShape(t.shape, sbp, pd)
           meta == ConsistentTensorMeta(shape, t.dtype, sbp, pd)
       IN  ConsistentImplCtor(meta, t.requires_grad, t.is_leaf, t)

\* EagerMirroredTensorImpl::InitEagerBlobObject on a fresh impl: fails unless the
\* meta's device is set, else binds a new EagerBlobObject built over the meta's
\* shape and dtype.
InitEagerBlobObjectOk(device) == device # NullDevice

\* NewWithPhyTensor computing the physical shape of parallel-id 0 on every rank.
NewWithPhyTensorRankZero(meta, device, parallel_id, requires_grad, is_leaf) ==
  LET cur_rank_phy_shape ==
        GetPhysicalShape(meta.shape, meta.parallel_distribution, meta.parallel_desc, 0)
  IN  IF ~InitEagerBlobObjectOk(device) THEN {Outcome("error", FALSE, NoImpl)}
      ELSE ConsistentImplCtor(meta, requires_grad, is_leaf,
             MirroredTensor(FALSE, device, cur_rank_phy_shape, meta.dtype,
                            requires_grad, is_leaf, TRUE))

\* EagerConsistentTensorImpl::NewWithPhyTensor
NewWithPhyTensor(meta, device, parallel_id, requires_grad, is_leaf) ==
  LET cur_rank_phy_shape ==
        GetPhysicalShape(meta.shape, meta.parallel_distribution, meta.parallel_desc,
                         parallel_id)
  IN  IF ~InitEagerBlobObjectOk(device) THEN {Outcome("error", FALSE, NoImpl)}
      ELSE ConsistentImplCtor(meta, requires_grad, is_leaf,
             MirroredTensor(FALSE, device, cur_rank_phy_shape, meta.dtype,
                            requires_grad, is_leaf, TRUE))

\* EagerConsistentTensorImpl::NewWithoutPhyTensor
NewWithoutPhyTensor(meta, device, parallel_id, requires_grad, is_leaf) ==
  ConsistentImplCtor(meta, requires_grad, is_leaf, NoTensor)

\* EagerConsistentTensorImpl::New(consistent_tensor_meta, requires_grad, is_leaf)
NewFromMetaOutcomes(c, meta, requires_grad, is_leaf) ==
  LET d == GetDevice4CurrentProcessCtx(meta.parallel_desc, c)
  IN  IF d.device # NullDevice
      THEN NewWithPhyTensor(meta, d.device, d.parallel_id, requires_grad, is_leaf)
      ELSE NewWithoutPhyTensor(meta, d.device, d.parallel_id, requires_grad, is_leaf)

\* The inputs the construction calls are tried on.
PhyTensors ==
  {MirroredTensor(lz, Device(t, i), sh, dt, g, ~g, ~lz) :
     lz \in BOOLEAN, t \in DeviceTags, i \in 0..1, sh \in Shapes, dt \in DTypes,
     g \in BOOLEAN}

ConsistentMetas ==
  {ConsistentTensorMeta(sh, dt, sbp, pd) :
     sh \in Shapes, dt \in DTypes, sbp \in ParallelDistributions(MaxAxes),
     pd \in ParallelDescs}

ValidSbp(sbp, shape) == \A i \in 1..Len(sbp) : sbp[i].kind = "S" => sbp[i].axis < Len(shape)

NoCall ==
  [op |-> "none", tensor |-> NoTensor, meta |-> NoMeta, requires_grad |-> FALSE,
   is_leaf |-> FALSE, out |-> Outcome("none", FALSE, NoImpl)]

\* A caller promotes a local tensor to a consistent tensor.
NewFromPhyTensor ==
  /\ cres.op = "none"
  /\ \E t \in PhyTensors, pd \in ParallelDescs :
       \E sbp \in ParallelDistributions(Len(t.shape)) :
         \E o \in NewFromPhyTensorOutcomes(ctx, t, sbp, pd) :
           cres' = [op |-> "NewFromPhyTensor", tensor |-> t,
                    meta |-> ConsistentTensorMeta(<<>>, t.dtype, sbp, pd),
                    requires_grad |-> t.requires_grad, is_leaf |-> t.is_leaf,
                    out |-> o]
  /\ UNCHANGED <<ctx, mvars, tvars, kcall>>

\* A caller materializes a consistent tensor from its meta.
NewFromMeta ==
  /\ cres.op = "none"
  /\ \E meta \in ConsistentMetas, g \in BOOLEAN, l \in BOOLEAN :
       /\ ValidSbp(meta.parallel_distribution, meta.shape)
       /\ \E o \in NewFromMetaOutcomes(ctx, meta, g, l) :
            cres' = [op |-> "NewFromMeta", tensor |-> NoTensor, meta |-> meta,
                     requires_grad |-> g, is_leaf |-> l, out |-> o]
  /\ UNCHANGED <<ctx, mvars, tvars, kcall>>

\* The caller drops the result of the last call.
DropResult ==
  /\ cres.op # "none"
  /\ cres' = NoCall
  /\ UNCHANGED <<ctx, mvars, tvars, kcall>>


\* ------------------------------------------------ autograd metadata access
\* The empty autograd_meta_ pointer.
NullAutogradMeta == [present |-> FALSE]

\* Gradient tensors are named 1..MaxGrads; 0 is no tensor.
GradTensors == 1..MaxGrads

\* An AutogradMeta object: the accumulated gradient, the current gradient
\* (a TensorArg) and the retain_grad flag.
AutogradMeta(acc, current, retain) ==
  [present |-> TRUE, acc_grad |-> acc, current_grad |-> current, retain_grad |-> retain]

AutogradMetas ==
  {AutogradMeta(a, c, r) : a \in 0..MaxGrads, c \in 0..MaxGrads, r \in BOOLEAN}

\* What a call returns and leaves as autograd metadata.
GradResult(status, ret, am) == [status |-> status, ret |-> ret, am |-> am]

\* TensorImpl::acc_grad
AccGrad(am, arg) ==
  IF ~am.present THEN GradResult("error", 0, am) ELSE GradResult("ok", am.acc_grad, am)

\* TensorImpl::current_grad
CurrentGrad(am, arg) ==
  IF ~am.present THEN GradResult("error", 0, am) ELSE GradResult("ok", am.current_grad, am)

\* set_acc_grad that does nothing when there is no autograd metadata.
SetAccGradSilent(am, grad) ==
  IF ~am.present THEN GradResult("ok", 0, am)
  ELSE GradResult("ok", 0, [am EXCEPT !.acc_grad = grad])

\* TensorImpl::set_acc_grad
SetAccGrad(am, grad) ==
  IF ~am.present THEN GradResult("error", 0, am)
  ELSE GradResult("ok", 0, [am EXCEPT !.acc_grad = grad])

\* TensorImpl::mut_acc_grad
MutAccGrad(am, arg) ==
  IF ~am.present THEN GradResult("error", 0, am) ELSE GradResult("ok", am.acc_grad, am)

\* TensorImpl::set_retain_grad
SetRetainGrad(am, retain_grad) ==
  IF ~am.present THEN GradResult("error", 0, am)
  ELSE GradResult("ok", 0, [am EXCEPT !.retain_grad = retain_grad])

GradOps == {"acc_grad", "current_grad", "set_acc_grad", "mut_acc_grad", "set_retain_grad"}

\* The arguments op is called with.
GradArgs(op) ==
  CASE op = "set_acc_grad" -> 0..MaxGrads
    [] op = "set_retain_grad" -> BOOLEAN
    [] OTHER -> {0}

GradApply(op, am, arg) ==
  CASE op = "acc_grad" -> AccGrad(am, arg)
    [] op = "current_grad" -> CurrentGrad(am, arg)
    [] op = "set_acc_grad" -> SetAccGrad(am, arg)
    [] op = "mut_acc_grad" -> MutAccGrad(am, arg)
    [] op = "set_retain_grad" -> SetRetainGrad(am, arg)

NoTCall == [op |-> "none"]

\* One of the five grad calls on the impl.
GradCall ==
  /\ tcall.op = "none"
  /\ \E op \in GradOps : \E arg \in GradArgs(op) :
       LET r == GradApply(op, autograd_meta, arg)
       IN  /\ tcall' = [op |-> op, arg |-> arg, pre |-> autograd_meta,
                        status |-> r.status, ret |-> r.ret]
           /\ autograd_meta' = r.am
  /\ UNCHANGED <<ctx, cres, mvars, kcall>>

\* The caller has looked at the result.
TCallReturn ==
  /\ tcall.op # "none"
  /\ tcall' = NoTCall
  /\ UNCHANGED <<ctx, cres, mvars, autograd_meta, kcall>>

\* ------------------------------------------------ meta equality and hashing
\* a ^ b on unsigned integers.
RECURSIVE Xor(_, _)
Xor(a, b) ==
  IF a = 0 THEN b
  ELSE IF b = 0 THEN a
  ELSE ((a + b) % 2) + 2 * Xor(a \div 2, b \div 2)

\* std::hash of the compared parts: a value determined by the part's contents.
RECURSIVE HashShape(_)
HashShape(shape) ==
  IF shape = <<>> THEN 1
  ELSE (31 * HashShape(SubSeq(shape, 1, Len(shape) - 1)) + shape[Len(shape)]) % 256
HashDType(dtype) == IF dtype = "kFloat" THEN 2 ELSE IF dtype = "kInt32" THEN 5 ELSE 0
HashDevice(device) == (IF device.tag = "cpu" THEN 16 ELSE 32) + device.id
HashSbp(sbp) == IF sbp = <<>> THEN 64 ELSE IF sbp[1].kind = "S" THEN 65 + sbp[1].axis ELSE 96
HashParallelDesc(pd) == (IF pd.tag = "cpu" THEN 128 ELSE 192) + Len(pd.members)

\* A MirroredTensorMeta value, is_dynamic_ included.
MirroredTensorMeta(shape, dtype, device, is_dynamic) ==
  [shape |-> shape, dtype |-> dtype, device |-> device, is_dynamic |-> is_dynamic]

\* MirroredTensorMeta::operator== comparing is_dynamic_ as well.
MirroredMetaEqWithDynamic(a, b) ==
  a.shape = b.shape /\ a.dtype = b.dtype /\ a.device = b.device
    /\ a.is_dynamic = b.is_dynamic

\* MirroredTensorMeta::operator==
MirroredMetaEq(a, b) == a.shape = b.shape /\ a.dtype = b.dtype /\ a.device = b.device

\* MirroredTensorMeta::CalcHashValue
MirroredMetaHash(a) == Xor(Xor(HashShape(a.shape), HashDType(a.dtype)), HashDevice(a.device))

\* A ConsistentTensorMeta value, is_dynamic_ included.
ConsistentTensorMetaDyn(shape, dtype, sbp, pd, is_dynamic) ==
  [shape |-> shape, dtype |-> dtype, parallel_distribution |-> sbp, parallel_desc |-> pd,
   is_dynamic |-> is_dynamic]

\* ConsistentTensorMeta::operator==
ConsistentMetaEq(a, b) ==
  a.shape = b.shape /\ a.dtype = b.dtype
    /\ a.parallel_distribution = b.parallel_distribution
    /\ a.parallel_desc = b.parallel_desc

\* ConsistentTensorMeta::CalcHashValue
ConsistentMetaHash(a) ==
  Xor(Xor(Xor(HashShape(a.shape), HashDType(a.dtype)), HashSbp(a.parallel_distribution)),
      HashParallelDesc(a.parallel_desc))

\* The metas compared.
MetaShapes == {<<1>>, <<2>>, <<1, 2>>}
MirroredMetaValues ==
  {MirroredTensorMeta(sh, dt, Device(tag, 0), dyn) :
     sh \in MetaShapes, dt \in DTypes, tag \in DeviceTags, dyn \in BOOLEAN}
ConsistentMetaValues ==
  {ConsistentTensorMetaDyn(sh, dt, sbp, [tag |-> tag, members |-> <<<<0, 0>>>>], dyn) :
     sh \in MetaShapes, dt \in DTypes, sbp \in {<<Broadcast>>, <<Split(0)>>},
     tag \in DeviceTags, dyn \in BOOLEAN}

\* Two metas of one kind are compared and hashed.
MetaEqCall ==
  /\ tcall.op = "none"
  /\ \/ \E a \in MirroredMetaValues, b \in MirroredMetaValues :
          tcall' = [op |-> "meta_eq", kind |-> "mirrored", a |-> a, b |-> b,
                    eq |-> MirroredMetaEq(a, b),
                    hash_a |-> MirroredMetaHash(a), hash_b |-> MirroredMetaHash(b)]
     \/ \E a \in ConsistentMetaValues, b \in ConsistentMetaValues :
          tcall' = [op |-> "meta_eq", kind |-> "consistent", a |-> a, b |-> b,
                    eq |-> ConsistentMetaEq(a, b),
                    hash_a |-> ConsistentMetaHash(a), hash_b |-> ConsistentMetaHash(b)]
  /\ UNCHANGED <<ctx, cres, mvars, autograd_meta, kcall>>

\* ------------------------------------------------ mirrored impl life cycle
\* The MirroredTensorMetas impls are built over: each has a Shape object of its
\* own (named by its number), a dtype and a device.
Metas ==
  <<[shape |-> 1, dtype |-> "kFloat", device |-> Device("cpu", 0)],
    [shape |-> 2, dtype |-> "kInt32", device |-> Device("cuda", 0)]>>
MetaIds == DOMAIN Metas
ShapeObjs == {Metas[m].shape : m \in MetaIds}

\* One instruction queue per device.
Queues == {Metas[m].device.tag : m \in MetaIds}
QueueOf(m) == Metas[m].device.tag

\* The (requires_grad, is_leaf) pairs impls are constructed with.
GradFlags == {<<TRUE, FALSE>>}

\* Objects are named by their position in the table of their kind, in order of
\* creation; 0 is the empty pointer.
ObjIds == 1..MaxCalls

Live(i) == i \in DOMAIN impls /\ impls[i].live

Impl(m, b, s, g, l) ==
  [live |-> TRUE, meta |-> m, blob |-> b, storage |-> s, requires_grad |-> g,
   is_leaf |-> l]

\* What a completed call returned.  final is set by shape(): no instruction
\* writing the returned Shape object was still incomplete when it returned.
\* pre is set by a call that binds a blob and returned an error: the blob and
\* the storage the impl held when the call was made.
Call(op, i, ok, ret) ==
  [op |-> op, impl |-> i, ok |-> ok, ret |-> ret, final |-> FALSE, pre |-> <<0, 0>>]

\* What a call that binds a blob to impl i returned.
Bound(op, i, ok) ==
  [Call(op, i, ok, 0) EXCEPT !.pre = IF ok THEN <<0, 0>>
                                     ELSE <<impls[i].blob, impls[i].storage>>]

\* The caller starts one more of the counted calls.
CallerStep ==
  /\ ncalls < MaxCalls
  /\ ncalls' = ncalls + 1

\* An instruction as the execution core holds it.  held is set on a
\* ReleaseTensor instruction: a live impl held the blob when it was enqueued.
Instr(kind, b, mode, q) ==
  [kind |-> kind, blob |-> b, mode |-> mode, queue |-> q, status |-> "queued",
   sawReleased |-> FALSE, callbacks |-> 0, held |-> FALSE]

\* The object tables a call works on.
Tables(im, bl, st, ins) == [impls |-> im, blobs |-> bl, storages |-> st, instrs |-> ins]

\* A releaser hook that disposes of the blob on the spot instead of issuing a
\* ReleaseTensor instruction.
ReleaserHookFreesInline(s, t) ==
  [t EXCEPT !.storages[s].hooks = @ + 1,
            !.blobs[t.storages[s].blob].released = TRUE]

\* The releaser hook UpdateTensorStorage installs on storage s: PhysicalRun of a
\* builder that calls ReleaseTensor(eager_blob_object, parallel_desc) for the
\* captured blob.
ReleaserHook(s, t) ==
  [t EXCEPT !.storages[s].hooks = @ + 1,
            !.instrs = Append(@, [Instr("release", t.storages[s].blob, "mut",
                                        t.storages[s].queue)
                                    EXCEPT !.held = \E j \in DOMAIN t.impls :
                                                      /\ t.impls[j].live
                                                      /\ t.impls[j].blob = t.storages[s].blob])]

\* A std::shared_ptr<TensorStorage> reference to s was dropped.  When no impl
\* holds s any more the storage is destroyed and its releaser hook runs.
Unref(s, t) ==
  IF s # 0 /\ \A j \in DOMAIN t.impls : ~(t.impls[j].live /\ t.impls[j].storage = s)
  THEN ReleaserHook(s, t)
  ELSE t

Now == Tables(impls, blobs, storages, instrs)

\* The call leaves the tables as t.
Becomes(t) ==
  /\ impls' = t.impls
  /\ blobs' = t.blobs
  /\ storages' = t.storages
  /\ instrs' = t.instrs

\* EagerMirroredTensorImpl::EagerMirroredTensorImpl(tensor_meta, requires_grad, is_leaf)
Construct(m, g, l) ==
  /\ pc = "idle"
  /\ CallerStep
  /\ impls' = Append(impls, Impl(m, 0, 0, g, l))
  /\ last' = Call("construct", 0, TRUE, 0)
  /\ UNCHANGED <<blobs, storages, shapeVal, instrs, caller>>

\* UpdateTensorStorage running the old storage's releaser itself when it
\* replaces the storage, other holders or not.
UpdateTensorStorageReleasesOld(i, t) ==
  LET ns == Len(t.storages) + 1
      old == t.impls[i].storage
      t1 == [t EXCEPT !.storages =
                        Append(@, [blob |-> t.impls[i].blob,
                                   queue |-> QueueOf(t.impls[i].meta),
                                   hooks |-> 0, shared |-> FALSE]),
                      !.impls[i].storage = ns]
  IN  IF old = 0 THEN t1 ELSE ReleaserHook(old, t1)

\* EagerMirroredTensorImpl::UpdateTensorStorage: a new TensorStorage over the
\* buffer of the impl's blob, with the releaser hook for that blob, replaces the
\* impl's storage.
UpdateTensorStorage(i, t) ==
  LET ns == Len(t.storages) + 1
      t1 == [t EXCEPT !.storages =
                        Append(@, [blob |-> t.impls[i].blob,
                                   queue |-> QueueOf(t.impls[i].meta),
                                   hooks |-> 0, shared |-> FALSE]),
                      !.impls[i].storage = ns]
  IN  Unref(t.impls[i].storage, t1)

\* EagerMirroredTensorImpl::set_eager_blob_object(eager_blob_object): the blob
\* is assigned first, then checked against the meta's shape object and dtype,
\* then the storage is replaced.
SetBlob(i, b, t) ==
  LET t1 == [t EXCEPT !.impls[i].blob = b]
      m == t.impls[i].meta
  IN  IF t.blobs[b].shape # Metas[m].shape \/ t.blobs[b].dtype # Metas[m].dtype
      THEN [ok |-> FALSE, t |-> t1]
      ELSE [ok |-> TRUE, t |-> UpdateTensorStorage(i, t1)]

NewBlob(shape, dtype) ==
  [shape |-> shape, dtype |-> dtype, synced |-> FALSE, released |-> FALSE]

\* EagerMirroredTensorImpl::InitEagerBlobObject(mem_case)
InitEagerBlobObject(i) ==
  /\ pc = "idle"
  /\ CallerStep
  /\ Live(i)
  /\ LET m == impls[i].meta
         t1 == [Now EXCEPT !.blobs = Append(@, NewBlob(Metas[m].shape, Metas[m].dtype))]
         r == SetBlob(i, Len(t1.blobs), t1)
     IN  /\ Becomes(r.t)
         /\ last' = Bound("InitEagerBlobObject", i, r.ok)
  /\ UNCHANGED <<shapeVal, caller>>

\* set_eager_blob_object with a blob that exists already.
SetEagerBlobObject(i, b) ==
  /\ pc = "idle"
  /\ CallerStep
  /\ Live(i)
  /\ b \in DOMAIN blobs
  /\ LET r == SetBlob(i, b, Now)
     IN  /\ Becomes(r.t)
         /\ last' = Bound("set_eager_blob_object", i, r.ok)
  /\ UNCHANGED <<shapeVal, caller>>

\* set_eager_blob_object with a blob the caller has just built over the Shape
\* object sh, with element type dt.
SetNewEagerBlobObject(i, sh, dt) ==
  /\ pc = "idle"
  /\ CallerStep
  /\ Live(i)
  /\ LET t1 == [Now EXCEPT !.blobs = Append(@, NewBlob(sh, dt))]
         r == SetBlob(i, Len(t1.blobs), t1)
     IN  /\ Becomes(r.t)
         /\ last' = Bound("set_eager_blob_object", i, r.ok)
  /\ UNCHANGED <<shapeVal, caller>>

\* EagerMirroredTensorImpl::InitEagerBlobObjectAndTensorStorage(blob, storage):
\* the caller passes a blob and a storage that other impls hold.
InitEagerBlobObjectAndTensorStorage(i, b, s) ==
  /\ pc = "idle"
  /\ CallerStep
  /\ Live(i)
  /\ b \in DOMAIN blobs
  /\ \E j \in DOMAIN impls : impls[j].live /\ impls[j].storage = s /\ s # 0
  /\ IF storages[s].blob # b
     THEN /\ last' = Bound("InitEagerBlobObjectAndTensorStorage", i, FALSE)
          /\ UNCHANGED <<impls, blobs, storages, instrs>>
     ELSE LET t1 == [Now EXCEPT !.impls[i].blob = b, !.impls[i].storage = s,
                                !.storages[s].shared = TRUE]
          IN  /\ Becomes(Unref(impls[i].storage, t1))
              /\ last' = Bound("InitEagerBlobObjectAndTensorStorage", i, TRUE)
  /\ UNCHANGED <<shapeVal, caller>>

\* A LazyMirroredTensorImpl: a meta and the two flags.
LazyImpl(m, g, l) == [lazy |-> TRUE, meta |-> m, requires_grad |-> g, is_leaf |-> l]

\* LazyMirroredTensorImpl::detach: the impl it returns.
LazyDetached(src) == LazyImpl(src.meta, FALSE, TRUE)

\* detach that forgets to hand over the blob.
EagerDetachedWithoutBlob(src) == Impl(src.meta, 0, src.storage, FALSE, TRUE)

\* EagerMirroredTensorImpl::detach: the impl it returns.
EagerDetached(src) == Impl(src.meta, src.blob, src.storage, FALSE, TRUE)

\* The impls detach is called on: lazy ones, and eager ones with or without a
\* blob and a storage.
DetachSources ==
  {LazyImpl(m, g, l) : m \in MetaIds, g \in BOOLEAN, l \in BOOLEAN}
    \cup {[lazy |-> FALSE, impl |-> Impl(m, b, b, g, l)] :
            m \in MetaIds, b \in 0..1, g \in BOOLEAN, l \in BOOLEAN}
    \cup {[lazy |-> FALSE, impl |-> Impl(m, 2, 1, g, l)] :
            m \in MetaIds, g \in BOOLEAN, l \in BOOLEAN}

\* detach() on a lazy or an eager impl.
DetachCall ==
  /\ tcall.op = "none"
  /\ \E src \in DetachSources :
       tcall' = [op |-> "detach", arg |-> src,
                 ret |-> IF src.lazy THEN LazyDetached(src)
                         ELSE [lazy |-> FALSE, impl |-> EagerDetached(src.impl)]]
  /\ UNCHANGED <<ctx, cres, mvars, autograd_meta, kcall>>

\* A detach that gives the new impl a copy of the source's blob, with a
\* shape-synced mark of its own.
DetachCopiesBlob(i) ==
  /\ pc = "idle"
  /\ CallerStep
  /\ Live(i)
  /\ blobs' = IF impls[i].blob = 0 THEN blobs
              ELSE Append(blobs, NewBlob(blobs[impls[i].blob].shape,
                                         blobs[impls[i].blob].dtype))
  /\ impls' = Append(impls, [EagerDetached(impls[i]) EXCEPT
                               !.blob = IF impls[i].blob = 0 THEN 0 ELSE Len(blobs) + 1])
  /\ storages' = IF impls[i].storage = 0 THEN storages
                 ELSE [storages EXCEPT ![impls[i].storage].shared = TRUE]
  /\ last' = Call("detach", i, TRUE, Len(impls) + 1)
  /\ UNCHANGED <<shapeVal, instrs, caller>>

\* EagerMirroredTensorImpl::detach
Detach(i) ==
  /\ pc = "idle"
  /\ CallerStep
  /\ Live(i)
  /\ impls' = Append(impls, EagerDetached(impls[i]))
  /\ storages' = IF impls[i].storage = 0 THEN storages
                 ELSE [storages EXCEPT ![impls[i].storage].shared = TRUE]
  /\ last' = Call("detach", i, TRUE, Len(impls) + 1)
  /\ UNCHANGED <<blobs, shapeVal, instrs, caller>>

\* A destructor that runs the releaser of its storage itself before the members'
\* references are dropped.
DestroyCallsHook(i) ==
  /\ pc = "idle" \/ (pc = "spin" /\ cur # i)
  /\ Live(i)
  /\ LET t0 == IF impls[i].storage = 0 THEN Now ELSE ReleaserHook(impls[i].storage, Now)
         t1 == [t0 EXCEPT !.impls[i].live = FALSE, !.impls[i].blob = 0,
                          !.impls[i].storage = 0]
     IN  Becomes(Unref(impls[i].storage, t1))
  /\ last' = IF pc = "idle" THEN Call("destroy", 0, TRUE, 0) ELSE last
  /\ UNCHANGED <<shapeVal, caller, ncalls>>

\* EagerMirroredTensorImpl::~EagerMirroredTensorImpl: the members' references are
\* dropped.  An impl other than the one inside shape() may be destroyed while the
\* caller waits.
Destroy(i) ==
  /\ pc = "idle" \/ (pc = "spin" /\ cur # i)
  /\ Live(i)
  /\ LET t1 == [Now EXCEPT !.impls[i].live = FALSE, !.impls[i].blob = 0,
                           !.impls[i].storage = 0]
     IN  Becomes(Unref(impls[i].storage, t1))
  /\ last' = IF pc = "idle" THEN Call("destroy", 0, TRUE, 0) ELSE last
  /\ UNCHANGED <<shapeVal, caller, ncalls>>

\* Whether an instruction writing Shape object o is enqueued and incomplete.
PendingWrite(o) ==
  \E k \in DOMAIN instrs :
    /\ instrs[k].kind = "compute" /\ instrs[k].mode = "mut"
    /\ blobs[instrs[k].blob].shape = o
    /\ instrs[k].status # "done"

Returned(op, i, o) ==
  [Call(op, i, TRUE, shapeVal[o]) EXCEPT !.final = ~PendingWrite(o)]

\* EagerMirroredTensorImpl::shape, no blob bound: the meta's shape.
ShapeOfMeta(i) ==
  /\ pc = "idle"
  /\ Live(i)
  /\ impls[i].blob = 0
  /\ last' = Returned("shape_meta", i, Metas[impls[i].meta].shape)
  /\ UNCHANGED <<impls, blobs, storages, shapeVal, instrs, caller, ncalls>>

\* shape() without the test of is_shape_synced: it goes through the rendezvous
\* for a blob whose shape is synced already.
ShapeFastRendezvous(i) ==
  /\ pc = "idle"
  /\ CallerStep
  /\ Live(i)
  /\ impls[i].blob # 0
  /\ blobs[impls[i].blob].synced
  /\ instrs' = Append(instrs, Instr("access", impls[i].blob, "const",
                                    QueueOf(impls[i].meta)))
  /\ pc' = "spin"
  /\ cur' = i
  /\ curInstr' = Len(instrs) + 1
  /\ flag' = FALSE
  /\ lock' = "free"
  /\ UNCHANGED <<impls, blobs, storages, shapeVal, last>>

\* EagerMirroredTensorImpl::shape, blob with a synced shape: the blob's shape.
ShapeFast(i) ==
  /\ pc = "idle"
  /\ Live(i)
  /\ impls[i].blob # 0
  /\ blobs[impls[i].blob].synced
  /\ last' = Returned("shape_fast", i, blobs[impls[i].blob].shape)
  /\ UNCHANGED <<impls, blobs, storages, shapeVal, instrs, caller, ncalls>>

\* shape() spinning without ForeignLockHelper::WithScopedRelease: the caller
\* keeps the foreign lock while it waits.
ShapeEnqueueKeepsLock(i) ==
  /\ pc = "idle"
  /\ CallerStep
  /\ Live(i)
  /\ impls[i].blob # 0
  /\ ~blobs[impls[i].blob].synced
  /\ instrs' = Append(instrs, Instr("access", impls[i].blob, "const",
                                    QueueOf(impls[i].meta)))
  /\ pc' = "spin"
  /\ cur' = i
  /\ curInstr' = Len(instrs) + 1
  /\ flag' = FALSE
  /\ UNCHANGED <<impls, blobs, storages, shapeVal, last, lock>>

\* EagerMirroredTensorImpl::shape, blob not synced: PhysicalRun of a builder that
\* calls AccessBlobByCallback(this, callback, "const"), then the spin wait is
\* entered inside ForeignLockHelper::WithScopedRelease, which gives the foreign
\* lock up for the duration of the wait.
ShapeEnqueue(i) ==
  /\ pc = "idle"
  /\ CallerStep
  /\ Live(i)
  /\ impls[i].blob # 0
  /\ ~blobs[impls[i].blob].synced
  /\ instrs' = Append(instrs, Instr("access", impls[i].blob, "const",
                                    QueueOf(impls[i].meta)))
  /\ pc' = "spin"
  /\ cur' = i
  /\ curInstr' = Len(instrs) + 1
  /\ flag' = FALSE
  /\ lock' = "free"
  /\ UNCHANGED <<impls, blobs, storages, shapeVal, last>>

\* shape() returning without waiting for the flag.
ShapeSpinExitNoWait ==
  /\ pc = "spin"
  /\ LET b == impls[cur].blob
     IN  /\ blobs' = [blobs EXCEPT ![b].synced = TRUE]
         /\ last' = Returned("shape_slow", cur, blobs[b].shape)
  /\ pc' = "idle"
  /\ lock' = "caller"
  /\ cur' = 0
  /\ curInstr' = 0
  /\ flag' = FALSE
  /\ UNCHANGED <<impls, storages, shapeVal, instrs, ncalls>>

\* shape() returning without set_is_shape_synced(true).
ShapeSpinExitNoMark ==
  /\ pc = "spin"
  /\ flag
  /\ last' = Returned("shape_slow", cur, blobs[impls[cur].blob].shape)
  /\ pc' = "idle"
  /\ lock' = "caller"
  /\ cur' = 0
  /\ curInstr' = 0
  /\ flag' = FALSE
  /\ UNCHANGED <<impls, blobs, storages, shapeVal, instrs, ncalls>>

\* EagerMirroredTensorImpl::shape, the wait ends once the callback has set the
\* flag: the lock is taken back, the blob is marked shape-synced and its shape
\* is returned.
ShapeSpinExit ==
  /\ pc = "spin"
  /\ flag
  /\ LET b == impls[cur].blob
     IN  /\ blobs' = [blobs EXCEPT ![b].synced = TRUE]
         /\ last' = Returned("shape_slow", cur, blobs[b].shape)
  /\ pc' = "idle"
  /\ lock' = "caller"
  /\ cur' = 0
  /\ curInstr' = 0
  /\ flag' = FALSE
  /\ UNCHANGED <<impls, storages, shapeVal, instrs, ncalls>>

\* EagerMirroredTensorImpl::shape, blob not synced, PhysicalRun returns an
\* error: CHECK_JUST terminates the process.
ShapeEnqueueFails(i) ==
  /\ pc = "idle"
  /\ Live(i)
  /\ impls[i].blob # 0
  /\ ~blobs[impls[i].blob].synced
  /\ pc' = "aborted"
  /\ UNCHANGED <<impls, blobs, storages, shapeVal, instrs, cur, curInstr, flag, lock,
                 last, ncalls>>

\* The last reference to the storage of impl i is dropped and PhysicalRun
\* returns an error inside the releaser hook: CHECK_JUST terminates the process.
ReleaserHookFails(i) ==
  /\ pc = "idle" \/ (pc = "spin" /\ cur # i)
  /\ Live(i)
  /\ impls[i].storage # 0
  /\ \A j \in DOMAIN impls :
       (impls[j].live /\ impls[j].storage = impls[i].storage) => j = i
  /\ pc' = "aborted"
  /\ UNCHANGED <<impls, blobs, storages, shapeVal, instrs, cur, curInstr, flag, lock,
                 last, ncalls>>

\* ------------------------------------------------ instruction execution core
\* PhysicalRun of a builder that issues one compute instruction on the blob of
\* impl i, reading it ("const") or writing it ("mut"), on queue q.
RunCompute(i, mode, q) ==
  /\ pc = "idle"
  /\ CallerStep
  /\ Live(i)
  /\ impls[i].blob # 0
  /\ instrs' = Append(instrs, Instr("compute", impls[i].blob, mode, q))
  /\ last' = Call("run", 0, TRUE, 0)
  /\ UNCHANGED <<impls, blobs, storages, shapeVal, caller>>

\* Two instructions on the same object conflict unless both only read it.
Conflict(a, b) == a.blob = b.blob /\ (a.mode = "mut" \/ b.mode = "mut")

\* An execution core that orders the instructions of one queue only.
CanStartQueueOrderOnly(k) ==
  /\ instrs[k].status = "queued"
  /\ \A j \in 1..(k - 1) :
       instrs[j].queue = instrs[k].queue => instrs[j].status = "done"
  /\ instrs[k].kind = "access" => lock = "free"

\* An execution core that orders conflicting instructions only.
CanStartConflictOrderOnly(k) ==
  /\ instrs[k].status = "queued"
  /\ \A j \in 1..(k - 1) :
       Conflict(instrs[j], instrs[k]) => instrs[j].status = "done"
  /\ instrs[k].kind = "access" => lock = "free"

\* The execution core may start instruction k: everything enqueued before it on
\* its queue has completed, and so has every earlier instruction it conflicts
\* with.  The callback of an access instruction runs under the foreign lock.
CanStart(k) ==
  /\ instrs[k].status = "queued"
  /\ \A j \in 1..(k - 1) :
       (instrs[j].queue = instrs[k].queue \/ Conflict(instrs[j], instrs[k]))
         => instrs[j].status = "done"
  /\ instrs[k].kind = "access" => lock = "free"

Start(k) ==
  /\ k \in DOMAIN instrs
  /\ CanStart(k)
  /\ instrs' = [instrs EXCEPT ![k].status = "running",
                              ![k].sawReleased = blobs[instrs[k].blob].released]
  /\ UNCHANGED <<impls, blobs, storages, shapeVal, caller, last, ncalls>>

\* An access instruction completing without its callback being called.
FinishSkipsCallback(k) ==
  /\ k \in DOMAIN instrs
  /\ instrs[k].status = "running"
  /\ instrs' = [instrs EXCEPT ![k].status = "done"]
  /\ shapeVal' = IF instrs[k].kind = "compute" /\ instrs[k].mode = "mut"
                 THEN [shapeVal EXCEPT ![blobs[instrs[k].blob].shape] = k]
                 ELSE shapeVal
  /\ blobs' = IF instrs[k].kind = "release"
              THEN [blobs EXCEPT ![instrs[k].blob].released = TRUE]
              ELSE blobs
  /\ UNCHANGED <<impls, storages, pc, cur, curInstr, flag, lock, last, ncalls>>

\* Instruction k completes: a writing compute instruction leaves the shape it
\* produced (named by the instruction's number) in the blob's Shape object, an
\* access instruction has run its callback, which sets the flag of the shape()
\* call that enqueued it, a release instruction has disposed of the blob.
Finish(k) ==
  /\ k \in DOMAIN instrs
  /\ instrs[k].status = "running"
  /\ instrs' = [instrs EXCEPT ![k].status = "done",
                              ![k].callbacks = IF instrs[k].kind = "access" THEN @ + 1 ELSE @]
  /\ shapeVal' = IF instrs[k].kind = "compute" /\ instrs[k].mode = "mut"
                 THEN [shapeVal EXCEPT ![blobs[instrs[k].blob].shape] = k]
                 ELSE shapeVal
  /\ flag' = IF instrs[k].kind = "access" /\ k = curInstr THEN TRUE ELSE flag
  /\ blobs' = IF instrs[k].kind = "release"
              THEN [blobs EXCEPT ![instrs[k].blob].released = TRUE]
              ELSE blobs
  /\ UNCHANGED <<impls, storages, pc, cur, curInstr, lock, last, ncalls>>

Executor == pc # "aborted" /\ \E k \in ObjIds : Start(k) \/ Finish(k)

\* ------------------------------------------------------------------ kernels
NoKCall == [op |-> "none"]

\* POOLING_DATA_TYPE_CPU_SEQ: the floating types and int32_t.
PoolingDataTypes == {"kFloat", "kDouble", "kInt32"}

\* The element values the kernels are tried on (no NaN, no infinity).
PoolElems == {-2, -1, 1}

\* A value that compares below every element drawn, standing for -infinity.
NegInfinity == (CHOOSE e \in PoolElems : \A f \in PoolElems : e <= f) - 1

\* -std::numeric_limits<T>::infinity(): an integer type has no infinity and
\* numeric_limits<T>::infinity() is T(), so the expression is 0 for int32_t.
NegatedInfinity(T) == IF T = "kInt32" THEN 0 ELSE NegInfinity

RECURSIVE Product(_)
Product(dims) == IF dims = <<>> THEN 1 ELSE Head(dims) * Product(Tail(dims))

\* NdIndexOffsetHelper::OffsetToNdIndex over a row-major tensor of the given
\* dims; the coordinates are 0-based.
RECURSIVE OffsetToNdIndex(_, _)
OffsetToNdIndex(offset, dims) ==
  IF dims = <<>> THEN <<>>
  ELSE <<offset \div Product(Tail(dims))>>
         \o OffsetToNdIndex(offset % Product(Tail(dims)), Tail(dims))

\* NdIndexOffsetHelper::NdIndexToOffset: the sum of coordinate times stride,
\* whatever the sign of the coordinates.
RECURSIVE NdIndexToOffset(_, _)
NdIndexToOffset(coordinate, dims) ==
  IF dims = <<>> THEN 0
  ELSE Head(coordinate) * Product(Tail(dims))
         + NdIndexToOffset(Tail(coordinate), Tail(dims))

\* Output extent of a pooling axis (floor mode).
PoolOutSize(x, kernel_size, stride, padding, dilation) ==
  ((x + 2 * padding - dilation * (kernel_size - 1) - 1) \div stride) + 1

\* hend / wend / tend: the smaller of the window's end and the input extent.
WindowEnd(start, kernel_size, dilation, x) ==
  IF start + (kernel_size - 1) * dilation + 1 < x
  THEN start + (kernel_size - 1) * dilation + 1
  ELSE x

\* while (hstart < 0) hstart += dilation_h
RECURSIVE WindowStart(_, _)
WindowStart(start, dilation) ==
  IF start < 0 THEN WindowStart(start + dilation, dilation) ELSE start

\* The values for (i = start; i < end; i += dilation) visits, in order.
RECURSIVE Steps(_, _, _)
Steps(start, end, dilation) ==
  IF start < end THEN <<start>> \o Steps(start + dilation, end, dilation) ELSE <<>>

RECURSIVE Flatten(_)
Flatten(seqs) == IF seqs = <<>> THEN <<>> ELSE Head(seqs) \o Flatten(Tail(seqs))

\* The body of the search loop of Maxpool2dFarwardCompute over the in-plane
\* offsets tcntrs, in order: acc holds max_value, maxindex and src_idx.
RECURSIVE LocalMax2d(_, _, _, _)
LocalMax2d(src, ip, tcntrs, acc) ==
  IF tcntrs = <<>> THEN acc
  ELSE LET tcntr == Head(tcntrs)
           search_idx == ip + tcntr
           val == src[search_idx]
       IN  LocalMax2d(src, ip, Tail(tcntrs),
                      IF val > acc.max_value
                      THEN [max_value |-> val, maxindex |-> tcntr, src_idx |-> search_idx]
                      ELSE acc)

\* One iteration of the kernel loop of Maxpool2dFarwardCompute: what it finds
\* for output element num.  Buffers are indexed from 0.
Maxpool2dAt(T, p, src, num) ==
  LET coords == OffsetToNdIndex(num, <<p.n_batch, p.n_channel, p.y_height, p.y_width>>)
      n == coords[1]
      c == coords[2]
      h == coords[3]
      w == coords[4]
      xstart == n * p.n_channel * p.x_width * p.x_height
      ip == xstart + c * p.x_width * p.x_height
      hstart0 == h * p.stride_h - p.padding_h
      wstart0 == w * p.stride_w - p.padding_w
      hend == WindowEnd(hstart0, p.kernel_size_h, p.dilation_h, p.x_height)
      wend == WindowEnd(wstart0, p.kernel_size_w, p.dilation_w, p.x_width)
      hstart == WindowStart(hstart0, p.dilation_h)
      wstart == WindowStart(wstart0, p.dilation_w)
      is == Steps(hstart, hend, p.dilation_h)
      js == Steps(wstart, wend, p.dilation_w)
      tcntrs == Flatten([a \in 1..Len(is) |->
                           [b \in 1..Len(js) |-> is[a] * p.x_width + js[b]]])
  IN  LocalMax2d(src, ip, tcntrs,
                 [max_value |-> NegatedInfinity(T),
                  maxindex |-> hstart * p.x_width + wstart,
                  src_idx |-> 0])

\* Maxpool2dFarwardCompute: the contents it leaves in dest and indice_ptr.
Maxpool2dFarwardCompute(T, p, src) ==
  LET elem_num == p.n_batch * p.n_channel * p.y_height * p.y_width
  IN  [dest |-> [num \in 0..(elem_num - 1) |-> src[Maxpool2dAt(T, p, src, num).src_idx]],
       indice_ptr |-> [num \in 0..(elem_num - 1) |-> Maxpool2dAt(T, p, src, num).maxindex]]

\* The launches of the 2-d kernel: input planes of at most MaxElems elements in
\* all, one stride, dilation and padding for both axes, the padding at most
\* half the kernel size, the output extents those of the pooling parameters.
Pool2dParams ==
  {[n_batch |-> nb, n_channel |-> nc, x_height |-> xh, x_width |-> xw,
    y_height |-> PoolOutSize(xh, kh, s, pd, d), y_width |-> PoolOutSize(xw, kw, s, pd, d),
    kernel_size_h |-> kh, kernel_size_w |-> kw, stride_h |-> s, stride_w |-> s,
    dilation_h |-> d, dilation_w |-> d, padding_h |-> pd, padding_w |-> pd] :
     nb \in 1..MaxDim, nc \in 1..MaxDim, xh \in 1..MaxDim, xw \in 1..MaxDim,
     kh \in 1..MaxDim, kw \in 1..MaxDim, s \in 1..MaxDim, d \in 1..MaxDim,
     pd \in 0..1}

ValidPool2d(p) ==
  /\ p.n_batch * p.n_channel * p.x_height * p.x_width <= MaxElems
  /\ 2 * p.padding_h <= p.kernel_size_h
  /\ 2 * p.padding_w <= p.kernel_size_w
  /\ p.x_height + 2 * p.padding_h - p.dilation_h * (p.kernel_size_h - 1) - 1 >= 0
  /\ p.x_width + 2 * p.padding_w - p.dilation_w * (p.kernel_size_w - 1) - 1 >= 0

\* A buffer of n elements, indexed from 0.
Buffers(n, elems) == [0..(n - 1) -> elems]

\* Maxpool2dFarwardCompute is launched.
Maxpool2dCall ==
  /\ kcall.op = "none"
  /\ \E T \in PoolingDataTypes, p \in Pool2dParams :
       /\ ValidPool2d(p)
       /\ \E src \in Buffers(p.n_batch * p.n_channel * p.x_height * p.x_width, PoolElems) :
            kcall' = [op |-> "maxpool2d", T |-> T, p |-> p, src |-> src,
                      out |-> Maxpool2dFarwardCompute(T, p, src)]
  /\ UNCHANGED <<ctx, cres, mvars, tvars>>

\* indp of Maxpool3dFarwardCompute: the indice_ptr slot the forward kernel
\* writes for output element (n, c, t, h, w).
ForwardIndiceSlot(p, n, c, t, h, w) ==
  LET ystart == n * p.n_channel * p.y_time * p.y_height * p.y_width
  IN  ystart + c * p.y_time * p.y_width * p.y_height + t * p.y_width * p.y_height
        + h * p.y_width + w

\* indice_idx of Maxpool3dBackwardCompute: the indice_ptr slot the backward
\* kernel reads for output element (n, c, t, h, w); its src extents are the
\* forward kernel's y extents.
BackwardIndiceSlot(p, n, c, t, h, w) ==
  t * p.y_height * p.y_width + h * p.y_width + w

\* The body of the search loop of Maxpool3dFarwardCompute; max_value starts at
\* maxval, and an element equal to maxval is taken too.
RECURSIVE LocalMax3d(_, _, _, _, _)
LocalMax3d(src, ip, maxval, tcntrs, acc) ==
  IF tcntrs = <<>> THEN acc
  ELSE LET tcntr == Head(tcntrs)
           search_idx == ip + tcntr
           val == src[search_idx]
       IN  LocalMax3d(src, ip, maxval, Tail(tcntrs),
                      IF val > acc.max_value \/ val = maxval
                      THEN [max_value |-> val, maxindex |-> tcntr, src_idx |-> search_idx]
                      ELSE acc)

\* One iteration of the kernel loop of Maxpool3dFarwardCompute.  The stores at
\* 294-296 are inside the zi loop; every window of the launches drawn has an
\* iteration of that loop, and the last one stores what the search ends with.
Maxpool3dAt(p, maxval, src, num) ==
  LET coords == OffsetToNdIndex(num, <<p.n_batch, p.n_channel, p.y_time, p.y_height,
                                       p.y_width>>)
      n == coords[1]
      c == coords[2]
      t == coords[3]
      h == coords[4]
      w == coords[5]
      xstart == n * p.n_channel * p.x_time * p.x_width * p.x_height
      ip == xstart + c * p.x_time * p.x_width * p.x_height
      tstart0 == t * p.stride_t - p.padding_t
      hstart0 == h * p.stride_h - p.padding_h
      wstart0 == w * p.stride_w - p.padding_w
      tend == WindowEnd(tstart0, p.kernel_size_t, p.dilation_t, p.x_time)
      hend == WindowEnd(hstart0, p.kernel_size_h, p.dilation_h, p.x_height)
      wend == WindowEnd(wstart0, p.kernel_size_w, p.dilation_w, p.x_width)
      tstart == WindowStart(tstart0, p.dilation_t)
      hstart == WindowStart(hstart0, p.dilation_h)
      wstart == WindowStart(wstart0, p.dilation_w)
      zs == Steps(tstart, tend, p.dilation_t)
      is == Steps(hstart, hend, p.dilation_h)
      js == Steps(wstart, wend, p.dilation_w)
      tcntrs == Flatten(Flatten(
                  [z \in 1..Len(zs) |->
                     [a \in 1..Len(is) |->
                        [b \in 1..Len(js) |->
                           zs[z] * p.x_height * p.x_width + is[a] * p.x_width + js[b]]]]))
      found == LocalMax3d(src, ip, maxval, tcntrs,
                          [max_value |-> maxval,
                           maxindex |-> tstart * p.x_height * p.x_width
                                          + hstart * p.x_width + wstart,
                           src_idx |-> 0])
  IN  [dest_idx |-> ForwardIndiceSlot(p, n, c, t, h, w),
       indp |-> ForwardIndiceSlot(p, n, c, t, h, w),
       value |-> src[found.src_idx],
       maxindex |-> found.maxindex]

\* Maxpool3dFarwardCompute: the contents it leaves in dest and indice_ptr.
Maxpool3dFarwardCompute(p, maxval, src) ==
  LET elem_num == p.n_batch * p.n_channel * p.y_time * p.y_height * p.y_width
      Store(slot, field, at) ==
        LET num == CHOOSE k \in 0..(elem_num - 1) : Maxpool3dAt(p, maxval, src, k)[at] = slot
        IN  Maxpool3dAt(p, maxval, src, num)[field]
  IN  [dest |-> [slot \in 0..(elem_num - 1) |-> Store(slot, "value", "dest_idx")],
       indice_ptr |-> [slot \in 0..(elem_num - 1) |-> Store(slot, "maxindex", "indp")]]

\* Maxpool3dBackwardCompute from output element num on: src is the output
\* gradient, dest the input gradient it accumulates into.
RECURSIVE Maxpool3dBackwardFrom(_, _, _, _, _)
Maxpool3dBackwardFrom(p, src, indice_ptr, dest, num) ==
  IF num >= p.n_batch * p.n_channel * p.y_time * p.y_height * p.y_width THEN dest
  ELSE LET coord_dx == OffsetToNdIndex(num, <<p.n_batch, p.n_channel, p.y_time,
                                              p.y_height, p.y_width>>)
           n == coord_dx[1]
           c == coord_dx[2]
           t == coord_dx[3]
           h == coord_dx[4]
           w == coord_dx[5]
           src_start == n * p.n_channel * p.y_time * p.y_height * p.y_width
                          + c * p.y_time * p.y_height * p.y_width
           dst_start == n * p.n_channel * p.x_time * p.x_height * p.x_width
           ip == dst_start + c * p.x_time * p.x_width * p.x_height
           src_idx == src_start + t * p.y_height * p.y_width + h * p.y_width + w
           indice_idx == BackwardIndiceSlot(p, n, c, t, h, w)
           dest_idx == ip + indice_ptr[indice_idx]
       IN  Maxpool3dBackwardFrom(p, src, indice_ptr,
                                 IF dest_idx # -1
                                 THEN [dest EXCEPT ![dest_idx] = @ + src[src_idx]]
                                 ELSE dest,
                                 num + 1)

\* Maxpool3dBackwardCompute over an input gradient that starts at zero.
Maxpool3dBackwardCompute(p, src, indice_ptr) ==
  Maxpool3dBackwardFrom(p, src, indice_ptr,
                        [e \in 0..(p.n_batch * p.n_channel * p.x_time * p.x_height
                                     * p.x_width - 1) |-> 0],
                        0)

\* The launches of the 3-d kernels: no padding, no dilation, one stride for the
\* three axes, kernels that fit the input.
Pool3dParams ==
  {[n_batch |-> nb, n_channel |-> nc, x_time |-> xt, x_height |-> xh, x_width |-> xw,
    y_time |-> PoolOutSize(xt, kt, s, 0, 1), y_height |-> PoolOutSize(xh, kh, s, 0, 1),
    y_width |-> PoolOutSize(xw, kw, s, 0, 1),
    kernel_size_t |-> kt, kernel_size_h |-> kh, kernel_size_w |-> kw,
    stride_t |-> s, stride_h |-> s, stride_w |-> s,
    dilation_t |-> 1, dilation_h |-> 1, dilation_w |-> 1,
    padding_t |-> 0, padding_h |-> 0, padding_w |-> 0] :
     nb \in 1..MaxDim, nc \in 1..MaxDim, xt \in 1..MaxDim, xh \in 1..MaxDim,
     xw \in 1..MaxDim, kt \in 1..MaxDim, kh \in 1..MaxDim, kw \in 1..MaxDim,
     s \in 1..MaxDim}

ValidPool3d(p) ==
  /\ p.n_batch * p.n_channel * p.x_time * p.x_height * p.x_width <= MaxElems
  /\ p.kernel_size_t <= p.x_time
  /\ p.kernel_size_h <= p.x_height
  /\ p.kernel_size_w <= p.x_width

\* Maxpool3dFarwardCompute is launched, then Maxpool3dBackwardCompute with the
\* indice_ptr it filled and an output gradient of ones.
Maxpool3dCall ==
  /\ kcall.op = "none"
  /\ \E p \in Pool3dParams, maxval \in {NegInfinity, 0} :
       /\ ValidPool3d(p)
       /\ \E src \in Buffers(p.n_batch * p.n_channel * p.x_time * p.x_height * p.x_width,
                             PoolElems) :
            LET fwd == Maxpool3dFarwardCompute(p, maxval, src)
                dy == [k \in DOMAIN fwd.dest |-> 1]
            IN  kcall' = [op |-> "maxpool3d", p |-> p, maxval |-> maxval, src |-> src,
                          out |-> fwd, dy |-> dy,
                          dx |-> Maxpool3dBackwardCompute(p, dy, fwd.indice_ptr)]
  /\ UNCHANGED <<ctx, cres, mvars, tvars>>

\* The index elements the scatter kernel is tried on: negative, in bounds, and
\* past the end.
IdxElems == -1..MaxDim

\* ScatterScalarUpdateFunctor from index element idx_offset on (the CPU loop is
\* sequential and the throw ends it).  r holds the output buffer, the stores
\* made as <<idx_offset, output_offset>>, and the status; a store outside the
\* buffer is recorded and leaves the buffer as it is.
RECURSIVE ScatterFrom(_, _, _, _, _, _, _, _)
ScatterFrom(idx_dims, output_dims, dim, upper_bound, index, src, r, idx_offset) ==
  IF idx_offset >= Product(idx_dims) THEN r
  ELSE LET coordinate0 == OffsetToNdIndex(idx_offset, idx_dims)
           idx_elem == index[idx_offset]
           coordinate == [coordinate0 EXCEPT ![dim + 1] = idx_elem]
           output_offset == NdIndexToOffset(coordinate, output_dims)
       IN  IF idx_elem >= upper_bound THEN [r EXCEPT !.status = "error"]
           ELSE ScatterFrom(idx_dims, output_dims, dim, upper_bound, index, src,
                            [r EXCEPT !.stores = Append(@, <<idx_offset, output_offset>>),
                                      !.output = IF output_offset \in DOMAIN r.output
                                                 THEN [@ EXCEPT ![output_offset] = src]
                                                 ELSE @],
                            idx_offset + 1)

\* ScatterScalarUpdateFunctor over an output buffer of zeros.
ScatterScalarUpdateFunctor(idx_dims, output_dims, dim, upper_bound, index, src) ==
  ScatterFrom(idx_dims, output_dims, dim, upper_bound, index, src,
              [status |-> "ok", stores |-> <<>>,
               output |-> [e \in 0..(Product(output_dims) - 1) |-> 0]],
              0)

\* Tensor dims of one or two axes.
KernelDims == UNION {[1..k -> 1..MaxDim] : k \in 1..2}

\* The scatter kernel is launched: the index tensor is no larger than the output
\* on any axis, and upper_bound is the output's extent on dim.  A store outside
\* the output buffer is undefined behaviour: the launch may return as if
\* nothing had happened or the process may die.
ScatterCall ==
  /\ kcall.op = "none"
  /\ \E output_dims \in KernelDims :
       \E idx_dims \in [DOMAIN output_dims -> 1..MaxDim], dim \in 0..(Len(output_dims) - 1) :
         /\ \A a \in DOMAIN output_dims : idx_dims[a] <= output_dims[a]
         /\ \E index \in Buffers(Product(idx_dims), IdxElems) :
              LET r == ScatterScalarUpdateFunctor(idx_dims, output_dims, dim,
                                                  output_dims[dim + 1], index, 1)
                  ub == \E k \in DOMAIN r.stores : r.stores[k][2] \notin DOMAIN r.output
              IN  \E fate \in IF ub THEN {r.status, "crash"} ELSE {r.status} :
                    kcall' = [op |-> "scatter", idx_dims |-> idx_dims,
                              output_dims |-> output_dims, dim |-> dim,
                              upper_bound |-> output_dims[dim + 1], index |-> index,
                              src |-> 1, output |-> r.output, stores |-> r.stores,
                              status |-> fate, ub |-> ub]
  /\ UNCHANGED <<ctx, cres, mvars, tvars>>

\* The caller has looked at what the kernel left.
KernelReturn ==
  /\ kcall.op # "none"
  /\ kcall' = NoKCall
  /\ UNCHANGED <<ctx, cres, mvars, tvars>>

\* ------------------------------------------------------------ specifications
NoLast == Call("none", 0, TRUE, 0)

InitMirrored ==
  /\ impls = <<>>
  /\ blobs = <<>>
  /\ storages = <<>>
  /\ shapeVal = [o \in ShapeObjs |-> 0]
  /\ instrs = <<>>
  /\ pc = "idle"
  /\ cur = 0
  /\ curInstr = 0
  /\ flag = FALSE
  /\ lock = "caller"
  /\ last = NoLast
  /\ ncalls = 0

InitImpl ==
  /\ autograd_meta = NullAutogradMeta
  /\ tcall = NoTCall
  /\ kcall = NoKCall

Init ==
  /\ InitMirrored
  /\ InitImpl
  /\ ctx = [machine |-> 0, device |-> 0]
  /\ cres = NoCall

Next ==
  \/ \E m \in MetaIds, gl \in GradFlags : Construct(m, gl[1], gl[2]) /\ UNCHANGED cvars
  \/ \E i \in ObjIds : InitEagerBlobObject(i) /\ UNCHANGED cvars
  \/ \E i \in ObjIds, b \in ObjIds : SetEagerBlobObject(i, b) /\ UNCHANGED cvars
  \/ \E i \in ObjIds, sh \in ShapeObjs, dt \in DTypes :
       SetNewEagerBlobObject(i, sh, dt) /\ UNCHANGED cvars
  \/ \E i \in ObjIds, b \in ObjIds, s \in ObjIds :
       InitEagerBlobObjectAndTensorStorage(i, b, s) /\ UNCHANGED cvars
  \/ \E i \in ObjIds : Detach(i) /\ UNCHANGED cvars
  \/ \E i \in ObjIds : Destroy(i) /\ UNCHANGED cvars
  \/ \E i \in ObjIds : ShapeOfMeta(i) /\ UNCHANGED cvars
  \/ \E i \in ObjIds : ShapeFast(i) /\ UNCHANGED cvars
  \/ \E i \in ObjIds : ShapeEnqueue(i) /\ UNCHANGED cvars
  \/ ShapeSpinExit /\ UNCHANGED cvars
  \/ \E i \in ObjIds, mode \in {"const", "mut"}, q \in Queues :
       RunCompute(i, mode, q) /\ UNCHANGED cvars
  \/ Executor /\ UNCHANGED cvars

Spec == Init /\ [][Next]_vars

\* The execution core keeps executing what it can, and the caller's spin loop
\* keeps testing its flag.
FairSpec ==
  Spec /\ WF_vars(Executor /\ UNCHANGED cvars) /\ WF_vars(ShapeSpinExit /\ UNCHANGED cvars)

\* The calls of Next, and PhysicalRun failing where the impl calls it.
NextFallible ==
  \/ Next
  \/ \E i \in ObjIds : ShapeEnqueueFails(i) /\ UNCHANGED cvars
  \/ \E i \in ObjIds : ReleaserHookFails(i) /\ UNCHANGED cvars

SpecFallible == Init /\ [][NextFallible]_vars

InitConsistent ==
  /\ InitMirrored
  /\ InitImpl
  /\ ctx \in ProcessCtxs
  /\ cres = NoCall

NextConsistent == NewFromPhyTensor \/ NewFromMeta \/ DropResult

SpecConsistent == InitConsistent /\ [][NextConsistent]_vars

\* ------------------------------------------------------------------ claims
\* The ParallelDesc and the ParallelDistribution of the last construction call.
CallDesc == cres.meta.parallel_desc
CallSbp == cres.meta.parallel_distribution
IsMember(pd, c) == GetDevice4CurrentProcessCtx(pd, c).device # NullDevice

\* C1: for every logical shape L, ParallelDistribution, ParallelDesc and every
\* participating rank r, GetLogicalShape(GetPhysicalShape(L, sbp, pd, r), sbp, pd)
\* equals L, split extents that the number of ranks does not divide included.
C1_RoundTrip ==
  cres.op = "NewFromMeta" =>
    \A r \in 0..(ParallelNum(CallDesc) - 1) :
      GetLogicalShape(GetPhysicalShape(cres.meta.shape, CallSbp, CallDesc, r),
                      CallSbp, CallDesc) = cres.meta.shape

\* C2: New(meta, requires_grad, is_leaf) on a process that takes no part in the
\* meta's ParallelDesc completes with an impl that has no physical tensor, with
\* no error and no invalid access.
C2_AbsentRankConstruction ==
  (cres.op = "NewFromMeta" /\ ~IsMember(CallDesc, ctx)) =>
    /\ cres.out.status = "ok"
    /\ ~cres.out.ub
    /\ ~cres.out.impl.cur_rank_phy_tensor.present

\* C3: an impl produced by either New overload has no current-rank physical
\* tensor exactly when the current process is not a member of its ParallelDesc.
C3_PhyTensorIffMember ==
  cres.out.status = "ok" =>
    (~cres.out.impl.cur_rank_phy_tensor.present
       <=> ~IsMember(cres.out.impl.meta.parallel_desc, ctx))

\* C4: when construction ends with an impl that holds a physical tensor, the
\* meta's logical shape equals GetLogicalShape of the physical tensor's shape
\* under the meta's ParallelDistribution and ParallelDesc.
C4_LogicalShapeOfPhysical ==
  (cres.out.status = "ok" /\ cres.out.impl.cur_rank_phy_tensor.present) =>
    cres.out.impl.meta.shape =
      GetLogicalShape(cres.out.impl.cur_rank_phy_tensor.shape,
                      cres.out.impl.meta.parallel_distribution,
                      cres.out.impl.meta.parallel_desc)

\* C5: New from a physical tensor returns an impl only if the tensor is not lazy
\* and its device is the device of the current rank for the target ParallelDesc;
\* a lazy tensor or a differing device gives an error and no impl.
C5_NewFromPhyTensorChecks ==
  cres.op = "NewFromPhyTensor" =>
    LET good == ~cres.tensor.is_lazy
                /\ cres.tensor.device = Device(CallDesc.tag, ctx.device)
    IN  /\ cres.out.status = "ok" => good
        /\ ~good => (cres.out.status = "error" /\ cres.out.impl = NoImpl)

\* C5 witness: an eager tensor on another device than the current rank's is
\* refused.
C5_Witness ==
  /\ cres.op = "NewFromPhyTensor"
  /\ ~cres.tensor.is_lazy
  /\ cres.tensor.device # Device(CallDesc.tag, ctx.device)
  /\ cres.out.status = "error"

\* C6: while shape() spins on a blob whose shape is not synced the caller does
\* not hold the foreign lock, and under a fair execution core every such wait
\* ends with shape() returning.
C6_LockReleasedAndReturns ==
  /\ [](pc = "spin" => lock = "free")
  /\ (pc = "spin") ~> (pc = "idle")

\* C6 witness: the callback has run while the caller spins with the lock given
\* up.
C6_Witness == pc = "spin" /\ lock = "free" /\ flag

\* Instruction k writes blob b.
Writes(k, b) ==
  instrs[k].kind = "compute" /\ instrs[k].mode = "mut" /\ instrs[k].blob = b

\* C7: when the slow path of shape() returns, the access instruction it enqueued
\* has completed, and so has every instruction enqueued before it that writes
\* the blob; the blob is then marked shape-synced and the value returned is the
\* one its Shape object holds, with no write to the blob outstanding.
C7_ReturnsAfterCallback ==
  [][(pc = "spin" /\ pc' = "idle") =>
       LET b == impls[cur].blob
       IN  /\ instrs[curInstr].kind = "access"
           /\ instrs[curInstr].blob = b
           /\ instrs[curInstr].status = "done"
           /\ \A k \in DOMAIN instrs : Writes(k, b) => instrs[k].status = "done"
           /\ blobs'[b].synced
           /\ last'.op = "shape_slow"
           /\ last'.ret = shapeVal'[blobs[b].shape]]_vars

\* C7 witness: the slow path has returned the shape an earlier instruction wrote
\* to the blob.
C7_Witness ==
  /\ pc = "idle"
  /\ last.op = "shape_slow"
  /\ Live(last.impl)
  /\ \E k \in DOMAIN instrs :
       Writes(k, impls[last.impl].blob) /\ instrs[k].status = "done" /\ last.ret = k

ShapeOps == {"shape_slow", "shape_fast"}

\* C8: a blob marked shape-synced stays marked; after shape() has returned for
\* an impl its blob is marked; and a further shape() on that impl, made once no
\* write to the Shape object is outstanding, is the fast path: it returns the
\* same value, enqueues nothing and does not wait.
C8_SyncedSticksAndFastPath ==
  /\ [](\A i \in DOMAIN impls :
          (pc = "idle" /\ last.op \in ShapeOps /\ last.impl = i /\ Live(i)
             /\ impls[i].blob # 0) => blobs[impls[i].blob].synced)
  /\ [][\A b \in DOMAIN blobs : blobs[b].synced => blobs'[b].synced]_vars
  /\ [][\A i \in ObjIds :
          (last.op \in ShapeOps /\ last.impl = i /\ last.final) =>
            /\ ~ShapeEnqueue(i)
            /\ ShapeFast(i) =>
                 (last'.ret = last.ret /\ instrs' = instrs /\ pc' = "idle")]_vars

\* C8 witness: after the slow path, a second shape() has returned by the fast
\* path the shape an instruction produced.
C8_Witness ==
  /\ last.op = "shape_fast"
  /\ last.final
  /\ last.ret # 0
  /\ \E k \in DOMAIN instrs : instrs[k].kind = "access" /\ instrs[k].status = "done"

\* C9: the releaser hook of a TensorStorage has run at most once, whatever
\* sequence of construction, detach, rebinding and destruction came before.
C9_HookAtMostOnce == \A s \in DOMAIN storages : storages[s].hooks <= 1

\* C9 witness: a storage that several impls held has had its hook run.
C9_Witness == \E s \in DOMAIN storages : storages[s].shared /\ storages[s].hooks = 1

\* C10: a ReleaseTensor instruction has not started while an instruction on the
\* same blob enqueued before it is incomplete, and an instruction that found
\* its blob released was enqueued after a ReleaseTensor of that blob.
C10_ReleaseOrderedAfterUse ==
  /\ \A r \in DOMAIN instrs : \A k \in 1..(r - 1) :
       (instrs[r].kind = "release" /\ instrs[r].status # "queued"
          /\ instrs[k].blob = instrs[r].blob) => instrs[k].status = "done"
  /\ \A k \in DOMAIN instrs :
       instrs[k].sawReleased =>
         \E r \in 1..(k - 1) :
           instrs[r].kind = "release" /\ instrs[r].blob = instrs[k].blob

\* C10 witness: a blob has been released, by an instruction enqueued when the
\* last impl was destroyed, after an earlier instruction on it ran to completion
\* on another queue.
C10_Witness ==
  \E r \in DOMAIN instrs : \E k \in 1..(r - 1) :
    /\ instrs[r].kind = "release" /\ instrs[r].status = "done"
    /\ instrs[k].kind # "release" /\ instrs[k].blob = instrs[r].blob
    /\ instrs[k].queue # instrs[r].queue
    /\ blobs[instrs[r].blob].released

\* The live impls that hold storage s.
Holders(s) == {i \in DOMAIN impls : impls[i].live /\ impls[i].storage = s}

\* The ReleaseTensor instructions enqueued for blob b.
Releases(b) == {k \in DOMAIN instrs : instrs[k].kind = "release" /\ instrs[k].blob = b}

\* C11: the releaser hook of a storage has not run while an impl (the original or
\* one obtained by detach) holds the storage, it has run once no impl holds it,
\* and running it enqueues a ReleaseTensor instruction: a blob is disposed of
\* only by such an instruction completing.
C11_HookOnLastRelease ==
  /\ \A s \in DOMAIN storages :
       /\ Holders(s) # {} => storages[s].hooks = 0
       /\ Holders(s) = {} => storages[s].hooks = 1
       /\ storages[s].hooks = 1 => Releases(storages[s].blob) # {}
  /\ \A b \in DOMAIN blobs :
       /\ Cardinality(Releases(b)) =
            Cardinality({s \in DOMAIN storages : storages[s].blob = b /\ storages[s].hooks = 1})
       /\ blobs[b].released =>
            \E k \in Releases(b) : instrs[k].status = "done"

\* C11 witness: every impl that shared a storage through detach is gone, the hook
\* has run, and the ReleaseTensor instruction waits while the blob is intact.
C11_Witness ==
  \E s \in DOMAIN storages :
    /\ storages[s].shared /\ Holders(s) = {} /\ storages[s].hooks = 1
    /\ ~blobs[storages[s].blob].released
    /\ \E k \in Releases(storages[s].blob) : instrs[k].status = "queued"

\* C12: every impl that holds a blob and a storage holds a storage over the
\* buffer of that blob, after any sequence of calls, failed ones included.
C12_StorageOverBlobBuffer ==
  \A i \in DOMAIN impls :
    (impls[i].live /\ impls[i].blob # 0 /\ impls[i].storage # 0) =>
      storages[impls[i].storage].blob = impls[i].blob

\* C13: the shape recorded in a MirroredTensorMeta is the one the meta was
\* created with, whatever instructions have written to the blobs of the impls
\* that hold the meta.
C13_MetaShapeFixed == \A m \in MetaIds : shapeVal[Metas[m].shape] = 0

\* C14: a failing enqueue inside shape() or inside the releaser hook is handed
\* back to the caller as a failure result; it never terminates the process.
C14_FailureReturnedNotFatal == pc # "aborted"

\* TensorImpl-level calls: the impl under test has autograd metadata or none.
InitTensorImpl ==
  /\ InitMirrored
  /\ ctx = [machine |-> 0, device |-> 0]
  /\ cres = NoCall
  /\ autograd_meta \in AutogradMetas \cup {NullAutogradMeta}
  /\ tcall = NoTCall
  /\ kcall = NoKCall

NextTensorImpl == GradCall \/ DetachCall \/ MetaEqCall \/ TCallReturn

SpecTensorImpl == InitTensorImpl /\ [][NextTensorImpl]_vars

\* C15: each of the five grad calls on an impl without autograd metadata returns
\* an error and changes nothing; with metadata the getters return the
\* metadata's value and the setters store their argument in it and return Ok.
C15_GradCallsNeedMeta ==
  tcall.op \in GradOps =>
    IF ~tcall.pre.present
    THEN tcall.status = "error" /\ autograd_meta = tcall.pre
    ELSE /\ tcall.status = "ok"
         /\ tcall.op \in {"acc_grad", "mut_acc_grad"} =>
              (tcall.ret = tcall.pre.acc_grad /\ autograd_meta = tcall.pre)
         /\ tcall.op = "current_grad" =>
              (tcall.ret = tcall.pre.current_grad /\ autograd_meta = tcall.pre)
         /\ tcall.op = "set_acc_grad" =>
              autograd_meta = [tcall.pre EXCEPT !.acc_grad = tcall.arg]
         /\ tcall.op = "set_retain_grad" =>
              autograd_meta = [tcall.pre EXCEPT !.retain_grad = tcall.arg]

\* C15 witness: set_acc_grad with a gradient on an impl without autograd
\* metadata has returned an error.
C15_Witness ==
  /\ tcall.op = "set_acc_grad"
  /\ tcall.arg # 0
  /\ ~tcall.pre.present
  /\ tcall.status = "error"

\* C16: the impl detach() returns has requires_grad false and is_leaf true and
\* holds the meta of the source, whatever the source's flags; an eager one also
\* holds the source's blob and the source's storage.
C16_DetachShares ==
  tcall.op = "detach" =>
    IF tcall.arg.lazy
    THEN /\ tcall.ret.lazy
         /\ ~tcall.ret.requires_grad /\ tcall.ret.is_leaf
         /\ tcall.ret.meta = tcall.arg.meta
    ELSE /\ ~tcall.ret.lazy
         /\ ~tcall.ret.impl.requires_grad /\ tcall.ret.impl.is_leaf
         /\ tcall.ret.impl.meta = tcall.arg.impl.meta
         /\ tcall.ret.impl.blob = tcall.arg.impl.blob
         /\ tcall.ret.impl.storage = tcall.arg.impl.storage

\* C16 witness: an eager impl with requires_grad set, not a leaf, and holding a
\* blob and a storage, has been detached.
C16_Witness ==
  /\ tcall.op = "detach"
  /\ ~tcall.arg.lazy
  /\ tcall.arg.impl.requires_grad /\ ~tcall.arg.impl.is_leaf
  /\ tcall.arg.impl.blob # 0 /\ tcall.arg.impl.storage # 0

\* The fields of a meta other than is_dynamic.
Compared(m) == [f \in (DOMAIN m) \ {"is_dynamic"} |-> m[f]]

\* C17: two metas of one kind whose shape, dtype and device (for consistent
\* metas: shape, dtype, ParallelDistribution and ParallelDesc) are the same
\* compare equal and hash equal whatever their is_dynamic flags; two that differ
\* in one of those fields compare unequal.
C17_MetaEqualityIgnoresDynamic ==
  tcall.op = "meta_eq" =>
    IF Compared(tcall.a) = Compared(tcall.b)
    THEN tcall.eq /\ tcall.hash_a = tcall.hash_b
    ELSE ~tcall.eq

\* C17 witness: two mirrored metas that differ only in is_dynamic have been
\* compared and found equal.
C17_Witness ==
  /\ tcall.op = "meta_eq"
  /\ tcall.kind = "mirrored"
  /\ tcall.a.is_dynamic # tcall.b.is_dynamic
  /\ Compared(tcall.a) = Compared(tcall.b)
  /\ tcall.eq

\* C18: the callback of an enqueued AccessBlobByCallback instruction has been
\* called once when the instruction is complete and not before; the only one
\* whose callback is still to come is that of the shape() call in progress, and
\* it does come (it sets the flag); the call is made in a step of the execution
\* core (the caller does not move) after the writes to the blob enqueued before.
C18_CallbackExactlyOnce ==
  /\ [](\A k \in DOMAIN instrs :
          instrs[k].kind = "access" =>
            instrs[k].callbacks = (IF instrs[k].status = "done" THEN 1 ELSE 0))
  /\ [](\A k \in DOMAIN instrs :
          (instrs[k].kind = "access" /\ instrs[k].callbacks = 0) =>
            (pc = "spin" /\ k = curInstr /\ ~flag))
  /\ (pc = "spin") ~> flag
  /\ [][\A k \in DOMAIN instrs :
          (instrs[k].kind = "access" /\ instrs'[k].callbacks # instrs[k].callbacks) =>
            /\ instrs[k].status = "running"
            /\ pc' = pc /\ last' = last /\ ncalls' = ncalls
            /\ (k = curInstr => flag')
            /\ \A j \in 1..(k - 1) :
                 Writes(j, instrs[k].blob) => instrs[j].status = "done"]_vars

\* C18 witness: the callback of an access instruction has been called after an
\* earlier write to its blob, while the caller still spins.
C18_Witness ==
  \E k \in DOMAIN instrs :
    /\ instrs[k].kind = "access" /\ instrs[k].callbacks = 1
    /\ pc = "spin" /\ k = curInstr
    /\ \E j \in 1..(k - 1) : Writes(j, instrs[k].blob)

\* C19: of two instructions on the same blob of which one writes, the later
\* enqueued has not started before the earlier is complete, whatever their
\* queues; instructions that only read are not held back by one another.
C19_ConflictingInOrder ==
  \A k \in DOMAIN instrs : \A j \in 1..(k - 1) :
    /\ Conflict(instrs[j], instrs[k]) =>
         (instrs[k].status # "queued" => instrs[j].status = "done")
    /\ (~Conflict(instrs[j], instrs[k]) /\ instrs[j].queue # instrs[k].queue
          /\ instrs[k].status = "queued" /\ instrs[k].kind # "access") =>
         (ENABLED Start(k) <=>
            \A i \in 1..(k - 1) :
              (i # j /\ (instrs[i].queue = instrs[k].queue \/ Conflict(instrs[i], instrs[k])))
                => instrs[i].status = "done")

\* C19 witness: two reads of one blob run at the same time on two queues while
\* a later write to that blob waits.
C19_Witness ==
  \E r \in DOMAIN instrs : \E k \in 1..(r - 1) : \E j \in 1..(k - 1) :
    /\ instrs[j].blob = instrs[r].blob /\ instrs[k].blob = instrs[r].blob
    /\ instrs[j].mode = "const" /\ instrs[k].mode = "const"
    /\ instrs[j].queue # instrs[k].queue
    /\ instrs[j].status = "running" /\ instrs[k].status = "running"
    /\ instrs[r].mode = "mut" /\ instrs[r].status = "queued"

\* C20: of two instructions enqueued on one queue the later has not started
\* before the earlier, and is not complete before the earlier is.
C20_QueueInOrder ==
  \A k \in DOMAIN instrs : \A j \in 1..(k - 1) :
    instrs[j].queue = instrs[k].queue =>
      /\ instrs[k].status # "queued" => instrs[j].status # "queued"
      /\ instrs[k].status = "done" => instrs[j].status = "done"

\* C20 witness: two instructions on different blobs were enqueued on one queue,
\* the first is complete and the second has started.
C20_Witness ==
  \E k \in DOMAIN instrs : \E j \in 1..(k - 1) :
    /\ instrs[j].queue = instrs[k].queue
    /\ instrs[j].blob # instrs[k].blob
    /\ instrs[j].status = "done"
    /\ instrs[k].status # "queued"

\* C21: a call that only enqueues work (PhysicalRun of a compute instruction,
\* the ReleaseTensor of a releaser hook) returns to the caller without any
\* instruction having changed its status; the caller waits only inside shape()
\* on an impl that has a blob whose shape is not synced, after registering the
\* AccessBlobByCallback instruction; shape() on an impl without a blob returns
\* the meta's shape, enqueues nothing and does not wait.
C21_OnlyShapeWaits ==
  /\ [](pc = "spin" =>
          /\ Live(cur) /\ impls[cur].blob # 0
          /\ ~blobs[impls[cur].blob].synced
          /\ instrs[curInstr].kind = "access"
          /\ instrs[curInstr].blob = impls[cur].blob)
  /\ [][(Len(instrs') > Len(instrs) /\ instrs'[Len(instrs')].kind # "access") =>
          /\ pc' = pc
          /\ \A k \in DOMAIN instrs : instrs'[k] = instrs[k]]_vars
  /\ [][(Len(instrs') > Len(instrs) /\ instrs'[Len(instrs')].kind = "access") =>
          /\ pc' = "spin"
          /\ instrs'[Len(instrs')].status = "queued"
          /\ \A k \in DOMAIN instrs : instrs'[k] = instrs[k]]_vars
  /\ [][\A i \in ObjIds :
          (Live(i) /\ impls[i].blob = 0) =>
            /\ ~ShapeEnqueue(i)
            /\ ShapeOfMeta(i) =>
                 /\ last'.ret = shapeVal[Metas[impls[i].meta].shape]
                 /\ instrs' = instrs
                 /\ pc' = "idle"]_vars

\* C21 witness: PhysicalRun has returned to the caller while the instruction it
\* enqueued, and a ReleaseTensor enqueued before it, have not started.
C21_Witness ==
  /\ pc = "idle"
  /\ last.op = "run"
  /\ instrs # <<>>
  /\ instrs[Len(instrs)].kind = "compute"
  /\ instrs[Len(instrs)].status = "queued"
  /\ \E k \in DOMAIN instrs : instrs[k].kind = "release" /\ instrs[k].status = "queued"

\* C22: New(meta, requires_grad, is_leaf) on a rank that takes part, with local
\* parallel-id p, succeeds with a current-rank physical tensor that is eager,
\* has the shape GetPhysicalShape(meta.shape, sbp, parallel_desc, p), the meta's
\* dtype, the device GetDevice4CurrentProcessCtx returned, the flags given, and
\* a blob bound.
C22_NewFromMetaOnMember ==
  (cres.op = "NewFromMeta" /\ IsMember(CallDesc, ctx)) =>
    LET d == GetDevice4CurrentProcessCtx(CallDesc, ctx)
        t == cres.out.impl.cur_rank_phy_tensor
    IN  /\ cres.out.status = "ok"
        /\ ~cres.out.ub
        /\ t # NoTensor
        /\ ~t.is_lazy
        /\ t.shape = GetPhysicalShape(cres.meta.shape, CallSbp, CallDesc, d.parallel_id)
        /\ t.dtype = cres.meta.dtype
        /\ t.device = d.device
        /\ t.requires_grad = cres.requires_grad
        /\ t.is_leaf = cres.is_leaf
        /\ t.has_blob

\* C22 witness: a rank with a parallel-id other than 0 has built its shard of a
\* split tensor, and the shard is smaller than the shard of parallel-id 0.
C22_Witness ==
  /\ cres.op = "NewFromMeta"
  /\ IsMember(CallDesc, ctx)
  /\ GetDevice4CurrentProcessCtx(CallDesc, ctx).parallel_id > 0
  /\ cres.out.status = "ok"
  /\ cres.out.impl.cur_rank_phy_tensor # NoTensor
  /\ cres.out.impl.cur_rank_phy_tensor.shape
       # GetPhysicalShape(cres.meta.shape, CallSbp, CallDesc, 0)

\* The extents the physical shapes of ranks 0..r have on the given axis, added
\* up; parts[q] is the physical shape of rank q.
RECURSIVE SumOfParts(_, _, _)
SumOfParts(parts, axis, r) ==
  IF r < 0 THEN 0 ELSE parts[r][axis] + SumOfParts(parts, axis, r - 1)

\* Four ranks on one machine, for the scenario of C23.
FourRanks == [tag |-> "cpu", members |-> [k \in 1..4 |-> <<0, k - 1>>]]

\* C23: for a Split(axis) entry over n ranks, the extents GetPhysicalShape gives
\* ranks 0..n-1 on that axis add up to the logical extent, any two of them
\* differ by at most 1, and they all equal extent/n when n divides the extent;
\* every other axis keeps the logical extent.  [8,4] split on axis 0 over 4
\* ranks is [2,4] on every rank, and GetLogicalShape of [2,4] is [8,4].
C23_SplitPartition ==
  (cres.op = "NewFromMeta" /\ CallSbp[1].kind = "S") =>
    LET L == cres.meta.shape
        n == ParallelNum(CallDesc)
        a == CallSbp[1].axis + 1
        P == [r \in 0..(n - 1) |-> GetPhysicalShape(L, CallSbp, CallDesc, r)]
    IN  /\ SumOfParts(P, a, n - 1) = L[a]
        /\ \A r \in 0..(n - 1) :
             /\ \A q \in 0..(n - 1) : P[r][a] - P[q][a] <= 1
             /\ Len(P[r]) = Len(L)
             /\ \A x \in DOMAIN L : x # a => P[r][x] = L[x]
             /\ L[a] % n = 0 => P[r][a] = L[a] \div n
        /\ \A r \in 0..3 : GetPhysicalShape(<<8, 4>>, <<Split(0)>>, FourRanks, r) = <<2, 4>>
        /\ GetLogicalShape(<<2, 4>>, <<Split(0)>>, FourRanks) = <<8, 4>>

\* C23 witness: a split whose extent the number of ranks does not divide has
\* been materialized on a rank, so two ranks hold shards of different extents.
C23_Witness ==
  /\ cres.op = "NewFromMeta"
  /\ CallSbp[1].kind = "S"
  /\ cres.out.status = "ok"
  /\ cres.meta.shape[CallSbp[1].axis + 1] % ParallelNum(CallDesc) # 0
  /\ \E r \in 0..(ParallelNum(CallDesc) - 1) :
       GetPhysicalShape(cres.meta.shape, CallSbp, CallDesc, r)
         # GetPhysicalShape(cres.meta.shape, CallSbp, CallDesc, 0)

\* C24: under a Broadcast or a PartialSum entry GetPhysicalShape gives every
\* rank of the ParallelDesc the logical shape, and GetLogicalShape of that
\* shape is the same shape.
C24_BroadcastKeepsShape ==
  (cres.op = "NewFromMeta" /\ CallSbp[1].kind \in {"B", "P"}) =>
    \A r \in 0..(ParallelNum(CallDesc) - 1) :
      /\ GetPhysicalShape(cres.meta.shape, CallSbp, CallDesc, r) = cres.meta.shape
      /\ GetLogicalShape(GetPhysicalShape(cres.meta.shape, CallSbp, CallDesc, r),
                         CallSbp, CallDesc) = cres.meta.shape

\* C24 witness: a broadcast tensor with a non-zero first extent has been
\* materialized on a rank of a ParallelDesc of several ranks.
C24_Witness ==
  /\ cres.op = "NewFromMeta"
  /\ CallSbp[1].kind = "B"
  /\ ParallelNum(CallDesc) > 1
  /\ cres.out.status = "ok"
  /\ cres.out.impl.cur_rank_phy_tensor # NoTensor
  /\ cres.out.impl.cur_rank_phy_tensor.shape = cres.meta.shape
  /\ cres.meta.shape[1] > 0

\* C25: at most one ReleaseTensor instruction has been enqueued for any blob,
\* and none was enqueued while a live impl held the blob.
C25_OneReleasePerBlob ==
  \A b \in DOMAIN blobs :
    /\ Cardinality(Releases(b)) <= 1
    /\ \A k \in Releases(b) : ~instrs[k].held

\* The calls that bind a blob and may return an error.
BindOps == {"set_eager_blob_object", "InitEagerBlobObjectAndTensorStorage"}

\* C26: after set_eager_blob_object or InitEagerBlobObjectAndTensorStorage has
\* returned an error, the impl holds the blob and the storage it held before
\* the call.
C26_FailedBindChangesNothing ==
  (pc = "idle" /\ last.op \in BindOps /\ ~last.ok /\ Live(last.impl)) =>
    /\ impls[last.impl].blob = last.pre[1]
    /\ impls[last.impl].storage = last.pre[2]

\* C27: detach() hands the source's blob to the impl it returns, and the
\* shape-synced mark is the blob's: once shape() has completed its rendezvous
\* on an impl, every other impl holding that blob is marked synced too, and
\* shape() on it enqueues no AccessBlobByCallback instruction, does not wait,
\* and returns the content of the same Shape object (the same value when no
\* write to it was outstanding).
C27_DetachedShareSynced ==
  /\ [][\A i \in ObjIds :
          Detach(i) =>
            /\ impls'[Len(impls')].blob = impls[i].blob
            /\ blobs' = blobs]_vars
  /\ [](\A i \in DOMAIN impls, j \in DOMAIN impls :
          (pc = "idle" /\ last.op = "shape_slow" /\ last.impl = i /\ Live(i) /\ Live(j)
             /\ impls[i].blob # 0 /\ impls[j].blob = impls[i].blob)
            => blobs[impls[j].blob].synced)
  /\ [][\A i \in ObjIds, j \in ObjIds :
          (last.op = "shape_slow" /\ last.impl = i /\ Live(i) /\ Live(j) /\ j # i
             /\ impls[i].blob # 0 /\ impls[j].blob = impls[i].blob) =>
            /\ ~ShapeEnqueue(j)
            /\ ShapeFast(j) =>
                 /\ last'.ret = shapeVal[blobs[impls[i].blob].shape]
                 /\ last.final => last'.ret = last.ret
                 /\ instrs' = instrs
                 /\ pc' = "idle"]_vars

\* C27 witness: shape() has completed its rendezvous on an impl, and shape() on
\* the impl detached from it has then returned by the fast path, with the one
\* AccessBlobByCallback instruction of the first call enqueued.
C27_Witness ==
  /\ last.op = "shape_fast"
  /\ Live(last.impl)
  /\ impls[last.impl].is_leaf /\ ~impls[last.impl].requires_grad
  /\ \E i \in DOMAIN impls :
       /\ Live(i) /\ i # last.impl
       /\ impls[i].requires_grad
       /\ impls[i].blob = impls[last.impl].blob
  /\ Cardinality({k \in DOMAIN instrs : instrs[k].kind = "access"}) = 1
  /\ \A k \in DOMAIN instrs : instrs[k].kind = "access" => instrs[k].status = "done"

\* Kernel launches, each on inputs of its own.
NextKernels == Maxpool2dCall \/ Maxpool3dCall \/ ScatterCall \/ KernelReturn

SpecKernels == Init /\ [][NextKernels]_vars

SetMax(S) == CHOOSE m \in S : \A x \in S : x <= m

\* The in-plane offsets i * x_width + j of the window of output element num of
\* the 2-d kernel: kernel_size steps of dilation from h * stride - padding on
\* each axis, the steps that fall outside the input plane left out.
Window2d(p, num) ==
  LET coords == OffsetToNdIndex(num, <<p.n_batch, p.n_channel, p.y_height, p.y_width>>)
      rows == {i \in 0..(p.x_height - 1) :
                 \E a \in 0..(p.kernel_size_h - 1) :
                   i = coords[3] * p.stride_h - p.padding_h + a * p.dilation_h}
      cols == {j \in 0..(p.x_width - 1) :
                 \E a \in 0..(p.kernel_size_w - 1) :
                   j = coords[4] * p.stride_w - p.padding_w + a * p.dilation_w}
  IN  {i * p.x_width + j : i \in rows, j \in cols}

\* Where the input plane (n, c) of output element num starts in src.
PlaneStart2d(p, num) ==
  LET coords == OffsetToNdIndex(num, <<p.n_batch, p.n_channel, p.y_height, p.y_width>>)
  IN  (coords[1] * p.n_channel + coords[2]) * p.x_height * p.x_width

\* C28: for every output position num and every supported element type,
\* Maxpool2dFarwardCompute leaves in dest[num] the largest source element of
\* the position's dilated window clipped to its input plane, and in
\* indice_ptr[num] the in-plane offset of an element of the window that has
\* that value, windows of negative values included.
C28_Maxpool2dForward ==
  kcall.op = "maxpool2d" =>
    \A num \in DOMAIN kcall.out.dest :
      LET W == Window2d(kcall.p, num)
          ip == PlaneStart2d(kcall.p, num)
      IN  W # {} =>
            /\ kcall.out.dest[num] = SetMax({kcall.src[ip + o] : o \in W})
            /\ kcall.out.indice_ptr[num] \in W
            /\ kcall.src[ip + kcall.out.indice_ptr[num]] = kcall.out.dest[num]

\* Where the input plane (n, c) of output element num starts in the input
\* gradient of the 3-d kernels.
PlaneStart3d(p, num) ==
  LET coords == OffsetToNdIndex(num, <<p.n_batch, p.n_channel, p.y_time, p.y_height,
                                       p.y_width>>)
  IN  (coords[1] * p.n_channel + coords[2]) * p.x_time * p.x_height * p.x_width

\* C29: for every output element (n, c, t, h, w) Maxpool3dBackwardCompute reads
\* the indice_ptr slot Maxpool3dFarwardCompute wrote for that element, so the
\* input gradient of an element is the sum of the output gradients (ones) of
\* the output elements of its plane for which the forward pass selected it.
C29_BackwardReadsForwardSlot ==
  kcall.op = "maxpool3d" =>
    LET p == kcall.p
        Coords(num) == OffsetToNdIndex(num, <<p.n_batch, p.n_channel, p.y_time,
                                              p.y_height, p.y_width>>)
        Fwd(num) == ForwardIndiceSlot(p, Coords(num)[1], Coords(num)[2], Coords(num)[3],
                                      Coords(num)[4], Coords(num)[5])
        Bwd(num) == BackwardIndiceSlot(p, Coords(num)[1], Coords(num)[2], Coords(num)[3],
                                       Coords(num)[4], Coords(num)[5])
    IN  /\ \A num \in DOMAIN kcall.dy : Bwd(num) = Fwd(num)
        /\ \A e \in DOMAIN kcall.dx :
             kcall.dx[e] =
               Cardinality({num \in DOMAIN kcall.dy :
                              PlaneStart3d(p, num) + kcall.out.indice_ptr[Fwd(num)] = e})

\* C30: ScatterScalarUpdateFunctor makes no store outside the output tensor:
\* an index element in [0, upper_bound) has no store other than src at the
\* position of its coordinate with coordinate[dim] replaced by it, and an
\* element that is negative or too large has no store and the launch ends in
\* an error.
C30_ScatterStaysInside ==
  kcall.op = "scatter" =>
    /\ ~kcall.ub
    /\ \A k \in DOMAIN kcall.index :
         LET e == kcall.index[k]
             at == NdIndexToOffset([OffsetToNdIndex(k, kcall.idx_dims)
                                      EXCEPT ![kcall.dim + 1] = e],
                                   kcall.output_dims)
             mine == {kcall.stores[x] : x \in {y \in DOMAIN kcall.stores :
                                                 kcall.stores[y][1] = k}}
         IN  IF e \in 0..(kcall.upper_bound - 1)
             THEN /\ mine \subseteq {<<k, at>>}
                  /\ mine # {} => kcall.output[at] = kcall.src
             ELSE /\ mine = {}
                  /\ kcall.status = "error"

====
